---------------------------- MODULE Spec2Model ----------------------------
(***************************************************************************)
(* Dockpanel / Foxden: system administration front ends over the native    *)
(* package, repository, firewall, boot and kernel tools.                    *)
(*                                                                          *)
(* The module models, domain by domain, the manager classes of             *)
(* src/dockpanel.py and the event handlers of src/foxden.py.  Text is       *)
(* modelled as sequences: a string is a sequence of tokens (or of character *)
(* codes where the code compares characters), a file is a sequence of       *)
(* lines.  Every domain has its own specification; the variables of the     *)
(* other domains stay at their initial value in it.                         *)
(***************************************************************************)
EXTENDS Integers, Sequences, FiniteSets, TLC

VARIABLES
    SYSTEM,            \* platform.system(), dockpanel.py:40
    PACKAGE_MANAGER,   \* global set by detect_system(), dockpanel.py:42
    boot,              \* versions v with a file /boot/vmlinuz-v
    running,           \* third word of /proc/version
    kLast,             \* the last remove_old_kernels call and what it did
    foxPM,             \* foxden: SystemAdminApp.package_manager
    foxThreads,        \* foxden: live worker threads of MainWindow.run_command
    foxIdleQ,          \* foxden: callbacks queued with GLib.idle_add
    foxStatus,         \* foxden: text of the status label
    foxInstalled,      \* foxden: system_admin.installed_packages (names)
    foxPkgDb,          \* packages the native package manager has installed
    foxClicks,         \* user requests made so far
    foxSwitch,         \* foxden: firewall_switch.get_active()
    foxFwRules,        \* foxden: system_admin.firewall_rules
    foxPkgAsked,       \* foxden: the last handler run on the packages page
    pkgRun,            \* dockpanel: the last package handler run and its spawns
    pkgPrev,           \* dockpanel: the package handler run before it
    aptFiles,          \* /etc/apt/sources.list and sources.list.d/*.list
    repoDb,            \* repositories dnf / zypper know, each enabled or not
    pacConf,           \* the lines of /etc/pacman.conf
    repoLast,          \* the last RepositoryManager call
    repoPrev,          \* the RepositoryManager call before it
    repoOps,           \* RepositoryManager calls made so far
    ufw,               \* the system's ufw: active flag and rules
    fwBins,            \* the firewall programs found on PATH
    rules_liststore,   \* dockpanel: the rows of the firewall rules view
    fwLast,            \* dockpanel: the last FirewallManager add / remove
    fwOps,             \* dockpanel: firewall handler runs so far
    logFiles,          \* which of journalctl, syslog and auth.log exist
    logStore,          \* the lines each log source holds
    log_type_combo,    \* dockpanel: active text of the log type combo
    logs_textview,     \* dockpanel: the lines the log view shows
    logLast,           \* dockpanel: the last clear_logs call
    logOps,            \* dockpanel: log handler runs so far
    unitEnabled,       \* systemd: for every service unit, whether it is enabled
    repo_liststore,    \* dockpanel: the rows of the repositories view
    service_liststore, \* dockpanel: the rows of the services view
    panelLast,         \* dockpanel: the last repository / service handler run
    panelOps,          \* dockpanel: repository / service handler runs so far
    gwProgram,         \* which program's gateway runs the commands
    gwCalls,           \* the gateway's invocations and the processes behind them
    passwd,            \* the user names of /etc/passwd
    user_liststore,    \* dockpanel: the user names of the users view
    foxUsers,          \* foxden: system_admin.users (names)
    userThreads,       \* foxden: worker threads started from the users page
    userIdleQ,         \* foxden: their callbacks queued with GLib.idle_add
    userSpawned,       \* the commands the user verbs have executed
    userOps,           \* user handler runs so far
    parseText,         \* the text a parser is given: lines of tokens
    parseOp,           \* the parser that was run on it
    service_status,    \* the dict get_service_status returned
    config,            \* the dict get_boot_config returned
    upgradable,        \* the list _parse_upgradable_list returned
    parseError,        \* the parser logged an exception
    installed_packages, \* the list get_installed_packages returned
    searchLast,        \* the last search_packages call
    firewalld,         \* the system's firewalld: running flag and configurations
    fwInfo,            \* dockpanel: the dict get_firewall_info returned last
    probeBins,         \* the package manager binaries present on the system
    probeBrew,         \* a known brew install path exists
    osRelease,         \* /etc/os-release: absent, or its ID and PRETTY_NAME
    DISTRO,            \* global set by detect_system(), dockpanel.py:41
    foxDistro,         \* foxden: SystemAdminApp.distro
    probed,            \* the programs that have started (and detected)
    probeOps,          \* changes of the installed binaries since the start
    probeRuns,         \* handler runs since the start
    grubDefault,       \* /etc/default/grub exists
    stepLast,          \* the last two-step operation: its commands and result
    stepOps            \* two-step operations run so far

sysVars == <<SYSTEM, PACKAGE_MANAGER>>
kernelVars == <<boot, running, kLast>>
foxVars == <<foxPM, foxThreads, foxIdleQ, foxStatus, foxInstalled, foxPkgDb, foxClicks,
             foxSwitch, foxFwRules, foxPkgAsked>>
pkgVars == <<pkgRun, pkgPrev>>
repoVars == <<aptFiles, repoDb, pacConf, repoLast, repoPrev, repoOps>>
ufwVars == <<ufw, fwBins, firewalld>>
fwVars == <<rules_liststore, fwLast, fwOps>>
logVars == <<logFiles, logStore, log_type_combo, logs_textview, logLast, logOps>>
\* the domains added after the firewall
panelVars == <<unitEnabled, repo_liststore, service_liststore, panelLast, panelOps>>
gwVars == <<gwProgram, gwCalls>>
userVars == <<passwd, user_liststore, foxUsers, userThreads, userIdleQ, userSpawned,
             userOps>>
parseVars == <<parseText, parseOp, service_status, config, upgradable, parseError,
              installed_packages, searchLast>>
probeVars == <<probeBins, probeBrew, osRelease, DISTRO, foxDistro, probed, probeOps,
              probeRuns>>
stepVars == <<grubDefault, stepLast, stepOps>>
lastVars == <<fwInfo, probeVars, stepVars>>
laterVars == <<logVars, panelVars, gwVars, userVars, parseVars, lastVars>>
vars == <<sysVars, kernelVars, foxVars, pkgVars, repoVars, ufwVars, fwVars, laterVars>>

\* the variables of the domains other than the one exercised
\* (the fox actions name ufwVars themselves: foxden's commands act on ufw)
exceptFox == <<kernelVars, pkgVars, repoVars, fwVars, laterVars>>
exceptKernel == <<foxVars, pkgVars, repoVars, ufwVars, fwVars, laterVars>>
exceptPkg == <<kernelVars, foxVars, repoVars, ufwVars, fwVars, laterVars>>
exceptRepo == <<kernelVars, foxVars, pkgVars, ufwVars, fwVars, laterVars>>
exceptFw == <<kernelVars, pkgVars, repoVars, laterVars>>
firstVars == <<kernelVars, foxVars, pkgVars, repoVars, ufwVars, fwVars>>
exceptLog == <<firstVars, panelVars, gwVars, userVars, parseVars, lastVars>>
exceptPanel == <<kernelVars, foxVars, pkgVars, ufwVars, fwVars, logVars, gwVars, userVars,
                parseVars, lastVars>>
exceptGw == <<firstVars, logVars, panelVars, userVars, parseVars, lastVars>>
exceptUser == <<firstVars, logVars, panelVars, gwVars, parseVars, lastVars>>
exceptParse == <<firstVars, logVars, panelVars, gwVars, userVars, lastVars>>

(***************************************************************************)
(* Generic helpers on sequences                                            *)
(***************************************************************************)
Max(a, b) == IF a >= b THEN a ELSE b

Range(s) == {s[i] : i \in DOMAIN s}

\* needle occurs in hay as a contiguous run (Python: needle in hay)
IsSubstr(needle, hay) ==
    \E i \in 0..(Len(hay) - Len(needle)) :
        \A j \in 1..Len(needle) : hay[i + j] = needle[j]

\* s starts with prefix p (Python: s.startswith(p))
StartsWith(s, p) ==
    /\ Len(s) >= Len(p)
    /\ \A j \in 1..Len(p) : s[j] = p[j]

(***************************************************************************)
(* The value each domain has while another domain is exercised             *)
(***************************************************************************)
NoKernelCall ==
    [called |-> FALSE, keep |-> 0, before |-> {}, kernels |-> <<>>,
     after |-> {}, to_remove |-> <<>>, cmds |-> <<>>, codes |-> <<>>, failed |-> 0,
     grub |-> FALSE, ok |-> TRUE, msg |-> "", named |-> <<>>, count |-> 0]

KernelIdle ==
    /\ boot = {}
    /\ running = <<>>
    /\ kLast = NoKernelCall

FoxIdle ==
    /\ foxPM = "unknown"
    /\ foxThreads = <<>>
    /\ foxIdleQ = <<>>
    /\ foxStatus = "Ready"
    /\ foxPkgDb = {}
    /\ foxInstalled = {}
    /\ foxClicks = 0
    /\ foxSwitch = FALSE
    /\ foxFwRules = <<>>
    /\ foxPkgAsked = "none"

NoPkgRun ==
    [op |-> "none", input |-> <<>>, password |-> <<>>, spawns |-> <<>>,
     ok |-> FALSE, msg |-> ""]

PkgIdle ==
    /\ pkgRun = NoPkgRun
    /\ pkgPrev = NoPkgRun

NoRepoCall ==
    [op |-> "none", name |-> <<>>, enable |-> FALSE, ok |-> FALSE, msg |-> "",
     before |-> "absent", wrote |-> FALSE, old |-> <<>>, new |-> <<>>,
     after |-> <<>>, steps |-> <<>>]

RepoIdle ==
    /\ aptFiles = <<>>
    /\ repoDb = <<>>
    /\ pacConf = <<>>
    /\ repoLast = NoRepoCall
    /\ repoPrev = NoRepoCall
    /\ repoOps = 0

\* a firewalld that is not running and has nothing configured
NoFirewalld == [running |-> FALSE, permanent |-> {}, runtime |-> {}]

UfwIdle ==
    /\ ufw = [active |-> FALSE, rules |-> <<>>]
    /\ fwBins = {}
    /\ firewalld = NoFirewalld

NoFwCall ==
    [op |-> "none", rule |-> <<>>, row |-> <<>>, spawn |-> <<>>, ok |-> FALSE,
     seen |-> <<>>]

FwIdle ==
    /\ rules_liststore = <<>>
    /\ fwLast = NoFwCall
    /\ fwOps = 0

NoLogCall ==
    [op |-> "none", log_type |-> "", returned |-> FALSE, success |-> FALSE,
     message |-> "", raised |-> "", spawns |-> <<>>]

LogIdle ==
    /\ logFiles = {}
    /\ logStore = <<>>
    /\ log_type_combo = "System"
    /\ logs_textview = <<>>
    /\ logLast = NoLogCall
    /\ logOps = 0

NoPanelRun ==
    [op |-> "none", path |-> 0, ran |-> FALSE, ok |-> FALSE, before |-> <<>>]

PanelIdle ==
    /\ unitEnabled = <<>>
    /\ repo_liststore = <<>>
    /\ service_liststore = <<>>
    /\ panelLast = NoPanelRun
    /\ panelOps = 0

GwIdle ==
    /\ gwProgram = "dockpanel"
    /\ gwCalls = <<>>

UserIdle ==
    /\ passwd = {}
    /\ user_liststore = <<>>
    /\ foxUsers = <<>>
    /\ userThreads = <<>>
    /\ userIdleQ = <<>>
    /\ userSpawned = <<>>
    /\ userOps = 0

\* the dict get_service_status starts from, dockpanel.py:724-733
NoStatus ==
    [name |-> "ssh.service", loaded |-> FALSE, active |-> FALSE, enabled |-> FALSE,
     description |-> <<>>, main_pid |-> 0, memory |-> 0, tasks |-> 0]

\* the dict get_boot_config starts from, dockpanel.py:478-483
NoConfig ==
    [bootloader |-> "Unknown", default_entry |-> <<"Unknown">>, timeout |-> 0,
     entries |-> <<>>]

NoParse == [name |-> "none", exists |-> FALSE, code |-> 0, loader |-> "Unknown"]

NoSearch == [query |-> <<>>, stdout |-> <<>>, code |-> 0, result |-> <<>>]

ParseIdle ==
    /\ parseText = <<>>
    /\ parseOp = NoParse
    /\ service_status = NoStatus
    /\ config = NoConfig
    /\ upgradable = <<>>
    /\ parseError = FALSE
    /\ installed_packages = <<>>
    /\ searchLast = NoSearch

\* the dict get_firewall_info starts from, dockpanel.py:816-822
NoFwInfo ==
    [backend |-> "unknown", active |-> FALSE, default_zone |-> "", zones |-> <<>>,
     rules |-> <<>>]

\* no /etc/os-release
NoOsRelease == [exists |-> FALSE, id |-> "", pretty |-> ""]

ProbeIdle ==
    /\ probeBins = {}
    /\ probeBrew = FALSE
    /\ osRelease = NoOsRelease
    /\ DISTRO = "Unknown"
    /\ foxDistro = "Unknown"
    /\ probed = {}
    /\ probeOps = 0
    /\ probeRuns = 0

NoStep == [op |-> "none", arg |-> "", steps |-> <<>>, ok |-> FALSE, msg |-> ""]

\* no /etc/default/grub and no generated grub.cfg
NoGrub == [exists |-> FALSE, default |-> "", timeout |-> "", made |-> <<>>]

StepIdle ==
    /\ grubDefault = NoGrub
    /\ stepLast = NoStep
    /\ stepOps = 0

LastIdle == fwInfo = NoFwInfo /\ ProbeIdle /\ StepIdle

LaterIdle == LogIdle /\ PanelIdle /\ GwIdle /\ UserIdle /\ ParseIdle /\ LastIdle
FirstIdle == KernelIdle /\ FoxIdle /\ PkgIdle /\ RepoIdle /\ UfwIdle /\ FwIdle

IdleExceptFox == KernelIdle /\ PkgIdle /\ RepoIdle /\ UfwIdle /\ FwIdle /\ LaterIdle
IdleExceptKernel == FoxIdle /\ PkgIdle /\ RepoIdle /\ UfwIdle /\ FwIdle /\ LaterIdle
IdleExceptPkg == KernelIdle /\ FoxIdle /\ RepoIdle /\ UfwIdle /\ FwIdle /\ LaterIdle
IdleExceptRepo == KernelIdle /\ FoxIdle /\ PkgIdle /\ UfwIdle /\ FwIdle /\ LaterIdle
IdleExceptFw == KernelIdle /\ PkgIdle /\ RepoIdle /\ LaterIdle
IdleExceptLog == FirstIdle /\ PanelIdle /\ GwIdle /\ UserIdle /\ ParseIdle /\ LastIdle
IdleExceptPanel ==
    KernelIdle /\ FoxIdle /\ PkgIdle /\ UfwIdle /\ FwIdle /\ LogIdle /\ GwIdle
    /\ UserIdle /\ ParseIdle /\ LastIdle
IdleExceptGw == FirstIdle /\ LogIdle /\ PanelIdle /\ UserIdle /\ ParseIdle /\ LastIdle
IdleExceptUser == FirstIdle /\ LogIdle /\ PanelIdle /\ GwIdle /\ ParseIdle /\ LastIdle
IdleExceptParse == FirstIdle /\ LogIdle /\ PanelIdle /\ GwIdle /\ UserIdle /\ LastIdle

(***************************************************************************)
(* Capability probe: detect_system()                                       *)
(***************************************************************************)
Platforms == {"Linux", "Darwin", "Windows"}
LinuxBinaries == {"apt", "dnf", "zypper", "pacman"}

\* dockpanel.py:49-73; "None" is Python's None
detect_system(system, bins, brewPath) ==
    IF system = "Linux"
    THEN IF "apt" \in bins THEN "apt"
         ELSE IF "dnf" \in bins THEN "dnf"
         ELSE IF "zypper" \in bins THEN "zypper"
         ELSE IF "pacman" \in bins THEN "pacman"
         ELSE "None"
    ELSE IF system = "Darwin"
    THEN IF brewPath THEN "brew" ELSE "None"
    ELSE "None"

SysInit ==
    \E system \in Platforms, bins \in SUBSET LinuxBinaries, brewPath \in BOOLEAN :
        /\ SYSTEM = system
        /\ PACKAGE_MANAGER = detect_system(system, bins, brewPath)

(***************************************************************************)
(* The system's ufw, which both programs command and read                  *)
(***************************************************************************)
\* firewall requests the user makes, of either program, in one run
MaxFwOps == 2

\* ports and protocols the add-rule dialogs are answered with
FwPorts == {"22"}
FwProtocols == {"tcp", "udp"}

\* port[/protocol]: the one-word rule ufw accepts after an action
UfwPortSpec(port, protocol) ==
    IF protocol = "any" THEN port ELSE port \o "/" \o protocol

UfwPortSpecs == {UfwPortSpec(p, q) : p \in FwPorts, q \in FwProtocols \cup {"any"}}

\* the actions of ufw's rule syntax and how `ufw status` prints them
UfwActions == [allow |-> "ALLOW", deny |-> "DENY", reject |-> "REJECT"]

\* the words of a command line behind its sudo prefix
RECURSIVE StripSudo(_)
StripSudo(words) ==
    IF words # <<>> /\ words[1] \in {"sudo", "-S"} THEN StripSudo(Tail(words))
    ELSE words

\* `ufw status verbose`, each line as line.split(): an inactive ufw prints
\* its status line only
UfwStatusVerbose(u) ==
    IF ~u.active THEN << <<"Status:", "inactive">> >>
    ELSE << <<"Status:", "active">>,
            <<"Logging:", "on", "(low)">>,
            <<"Default:", "deny", "(incoming),", "allow", "(outgoing),",
              "disabled", "(routed)">>,
            <<"New", "profiles:", "skip">> >>
         \o (IF u.rules = <<>> THEN <<>>
             ELSE << <<>>, <<"To", "Action", "From">>, <<"--", "------", "----">> >>
                  \o [i \in DOMAIN u.rules |->
                        <<u.rules[i].to, u.rules[i].action, "IN", u.rules[i].from>>])

\* `ufw <action> <port[/protocol]>`: the rule for that port is added, or its
\* action replaced
UfwAdd(rules, action, to) ==
    IF \E i \in DOMAIN rules : rules[i].to = to
    THEN [i \in DOMAIN rules |->
            IF rules[i].to = to THEN [rules[i] EXCEPT !.action = action] ELSE rules[i]]
    ELSE Append(rules, [to |-> to, action |-> action, from |-> "Anywhere"])

\* ufw run with the words args behind `ufw`; rc # 0 is the environment
\* refusing (not root, sudo rejecting the password).  Anything but the
\* forms below is a syntax error to ufw.
UfwRun(u, bins, args, rc) ==
    LET fail == [ufw |-> u, returncode |-> 1, stdout |-> <<>>]
        done(v) == [ufw |-> v, returncode |-> 0, stdout |-> <<>>]
    IN  IF "ufw" \notin bins \/ rc # 0 THEN fail
        ELSE IF args = <<"status", "verbose">>
        THEN [ufw |-> u, returncode |-> 0, stdout |-> UfwStatusVerbose(u)]
        ELSE IF args = <<"enable">> THEN done([u EXCEPT !.active = TRUE])
        ELSE IF args = <<"disable">> THEN done([u EXCEPT !.active = FALSE])
        ELSE IF Len(args) = 2 /\ args[1] \in DOMAIN UfwActions
                /\ args[2] \in UfwPortSpecs
        THEN done([u EXCEPT !.rules = UfwAdd(u.rules, UfwActions[args[1]], args[2])])
        ELSE IF Len(args) = 3 /\ args[1] = "delete" /\ args[2] \in DOMAIN UfwActions
                /\ args[3] \in UfwPortSpecs
        THEN done([u EXCEPT !.rules = SelectSeq(u.rules, LAMBDA r :
                      ~(r.to = args[3] /\ r.action = UfwActions[args[2]]))])
        ELSE fail

\* a command line run by a shell: ufw acts when the command is ufw's
RunWords(u, bins, words, rc) ==
    LET w == StripSudo(words)
    IN  IF w # <<>> /\ w[1] = "ufw" THEN UfwRun(u, bins, Tail(w), rc)
        ELSE [ufw |-> u, returncode |-> rc, stdout |-> <<>>]

\* what a firewalld zone holds: services and ports
FirewalldItems == { [type |-> "port", value |-> "22/tcp"],
                    [type |-> "service", value |-> "ssh"] }

\* the option of firewall-cmd that adds or removes an item
FirewalldOption(verb, item) == "--" \o verb \o "-" \o item.type \o "=" \o item.value

\* `firewall-cmd --list-all` of a running firewalld, each line as line.split()
FirewalldListAll(fd) ==
    << <<"public", "(active)">>,
       <<"target:", "default">>,
       <<"services:">> \o (IF \E x \in fd.runtime : x.type = "service"
                           THEN <<"ssh">> ELSE <<>>),
       <<"ports:">> \o (IF \E x \in fd.runtime : x.type = "port"
                        THEN <<"22/tcp">> ELSE <<>>) >>

\* a command line that is firewalld's: `systemctl start|stop firewalld`, or
\* firewall-cmd, which needs the daemon running and exits 252 without it.
\* A permanent change reaches the running configuration with --reload.
\* rc # 0 is the environment refusing (not root, sudo rejecting the password).
FirewalldRun(fd, bins, words, rc) ==
    LET w == StripSudo(words)
        fail == [firewalld |-> fd, returncode |-> 1, stdout |-> <<>>]
        done(v) == [firewalld |-> v, returncode |-> 0, stdout |-> <<>>]
    IN  IF "firewalld" \notin bins \/ rc # 0 THEN fail
        ELSE IF w = <<"systemctl", "start", "firewalld">>
        THEN done([fd EXCEPT !.running = TRUE,
                             !.runtime = IF fd.running THEN @ ELSE fd.permanent])
        ELSE IF w = <<"systemctl", "stop", "firewalld">>
        THEN done([fd EXCEPT !.running = FALSE, !.runtime = {}])
        ELSE IF ~fd.running THEN fail
        ELSE IF w = <<"firewall-cmd", "--list-all">>
        THEN [firewalld |-> fd, returncode |-> 0, stdout |-> FirewalldListAll(fd)]
        ELSE IF w = <<"firewall-cmd", "--reload">>
        THEN done([fd EXCEPT !.runtime = fd.permanent])
        ELSE IF \E x \in FirewalldItems :
                    w = <<"firewall-cmd", "--zone=public", FirewalldOption("add", x),
                          "--permanent">>
        THEN done([fd EXCEPT !.permanent = @ \cup
                      {x \in FirewalldItems : w[3] = FirewalldOption("add", x)}])
        ELSE IF \E x \in FirewalldItems :
                    w = <<"firewall-cmd", "--zone=public", FirewalldOption("remove", x),
                          "--permanent">>
        THEN done([fd EXCEPT !.permanent = @ \
                      {x \in FirewalldItems : w[3] = FirewalldOption("remove", x)}])
        ELSE fail

\* whether a command line is firewalld's
IsFirewalldCmd(words) ==
    LET w == StripSudo(words)
    IN  w # <<>> /\ (w[1] = "firewall-cmd"
                     \/ (w[1] = "systemctl" /\ w[Len(w)] = "firewalld"))

(***************************************************************************)
(* foxden: asynchronous command execution, MainWindow.run_command          *)
(***************************************************************************)
\* packages offered in the available-packages list
FoxCatalog == {"pkgA", "pkgB"}

\* install requests the user makes in one run of the model
MaxClicks == 2

\* foxden.py:65-73; shutil.which probes in the order apt, dnf, pacman, zypper
fox_detect_package_manager(system, bins) ==
    IF system = "Darwin" THEN "brew"
    ELSE IF system = "Linux"
    THEN IF "apt" \in bins THEN "apt"
         ELSE IF "dnf" \in bins THEN "dnf"
         ELSE IF "pacman" \in bins THEN "pacman"
         ELSE IF "zypper" \in bins THEN "zypper"
         ELSE "unknown"
    ELSE "unknown"

\* the command string of on_install_package, foxden.py:2184-2193, as words
FoxInstallCmd(pm, name) ==
    IF pm = "apt" THEN <<"sudo", "apt", "install", "-y", name>>
    ELSE IF pm = "dnf" THEN <<"sudo", "dnf", "install", "-y", name>>
    ELSE IF pm = "pacman" THEN <<"sudo", "pacman", "-S", "--noconfirm", name>>
    ELSE IF pm = "zypper" THEN <<"sudo", "zypper", "install", "-y", name>>
    ELSE IF pm = "brew" THEN <<"brew", "install", name>>
    ELSE <<>>

\* the two listing commands of refresh_packages, foxden.py:1227-1241
FoxListCmds(pm) ==
    IF pm = "apt" THEN << <<"dpkg", "-l">>, <<"apt-cache", "search", ".">> >>
    ELSE IF pm = "dnf"
    THEN << <<"dnf", "list", "installed">>, <<"dnf", "list", "available">> >>
    ELSE IF pm = "pacman" THEN << <<"pacman", "-Q">>, <<"pacman", "-Sl">> >>
    ELSE IF pm = "zypper"
    THEN << <<"zypper", "search", "-i">>, <<"zypper", "search">> >>
    ELSE IF pm = "brew" THEN << <<"brew", "list", "--versions">>, <<"brew", "search">> >>
    ELSE <<>>

\* run_command(command, callback), foxden.py:263-289: a daemon thread is
\* created and started; nothing is waited for and no lock is taken
FoxThread(kind, command, arg) ==
    [kind |-> kind, cmd |-> command, arg |-> arg, st |-> "created"]

fox_run_command(threads, kind, command, arg) ==
    Append(threads, FoxThread(kind, command, arg))

\* refresh_packages, foxden.py:1104-1244: the threads it starts
fox_refresh_packages(threads, pm) ==
    IF FoxListCmds(pm) = <<>> THEN threads
    ELSE fox_run_command(
             fox_run_command(threads, "list_installed", FoxListCmds(pm)[1], ""),
             "list_available", FoxListCmds(pm)[2], "")

RemoveAt(s, i) == SubSeq(s, 1, i - 1) \o SubSeq(s, i + 1, Len(s))

FoxInit ==
    /\ \E system \in Platforms, bins \in SUBSET LinuxBinaries :
          /\ SYSTEM = system
          /\ PACKAGE_MANAGER = detect_system(system, bins, TRUE)
          /\ foxPM = fox_detect_package_manager(system, bins)
    /\ foxThreads = <<>>
    /\ foxIdleQ = <<>>
    /\ foxStatus = "Ready"
    /\ foxPkgDb \in SUBSET FoxCatalog
    /\ foxInstalled = foxPkgDb
    /\ foxClicks = 0
    /\ foxSwitch = FALSE
    /\ foxFwRules = <<>>
    /\ foxPkgAsked = "none"
    /\ IdleExceptFox

\* on_install_package(package) answered YES, foxden.py:2139-2205
FoxInstallPackage ==
    \E name \in FoxCatalog :
        /\ foxClicks < MaxClicks
        /\ foxClicks' = foxClicks + 1
        /\ foxPkgAsked' = "on_install_package"
        /\ IF FoxInstallCmd(foxPM, name) = <<>>
           THEN /\ foxStatus' = "Unsupported package manager"
                /\ UNCHANGED foxThreads
           ELSE /\ foxStatus' = "Installing package..."
                /\ foxThreads' = fox_run_command(foxThreads, "install",
                                                 FoxInstallCmd(foxPM, name), name)
        /\ UNCHANGED <<foxPM, foxIdleQ, foxInstalled, foxPkgDb, foxSwitch, foxFwRules,
                       sysVars, ufwVars, exceptFox>>

\* thread_func reaches subprocess.Popen: the external process starts
FoxPopen ==
    \E i \in DOMAIN foxThreads :
        /\ foxThreads[i].st = "created"
        /\ foxThreads' = [foxThreads EXCEPT ![i].st = "running"]
        /\ UNCHANGED <<foxPM, foxPkgAsked, foxIdleQ, foxStatus, foxInstalled, foxPkgDb,
                       foxClicks, foxSwitch, foxFwRules, sysVars, ufwVars, exceptFox>>

\* refresh_firewall, foxden.py:918-960: the status command it starts, for
\* the firewall it finds (ufw is the one looked for first)
fox_refresh_firewall(threads, system, bins) ==
    IF system = "Linux"
    THEN IF "ufw" \in bins
         THEN [threads |-> fox_run_command(threads, "fw_status",
                                           <<"ufw", "status", "verbose">>, ""),
               status |-> "Refreshing firewall..."]
         ELSE IF "firewalld" \in bins
         THEN [threads |-> fox_run_command(threads, "fw_status",
                                           <<"firewall-cmd", "--list-all">>, ""),
               status |-> "Refreshing firewall..."]
         ELSE IF "iptables" \in bins
         THEN [threads |-> fox_run_command(threads, "fw_status",
                                           <<"iptables", "-L", "-n", "-v">>, ""),
               status |-> "Refreshing firewall..."]
         ELSE [threads |-> threads, status |-> "No supported firewall found"]
    ELSE IF system = "Darwin"
    THEN [threads |-> fox_run_command(threads, "fw_status",
                                      <<"sudo", "pfctl", "-s", "rules">>, ""),
          status |-> "Refreshing firewall..."]
    ELSE [threads |-> threads,
          status |-> "Unsupported system for firewall management"]

\* on_firewall_toggle, foxden.py:1813-1848, run for notify::active with the
\* switch at active; undo is the handler calling switch.set_active(not active)
fox_on_firewall_toggle(threads, system, bins, active) ==
    IF system = "Linux" /\ "ufw" \in bins
    THEN [threads |-> fox_run_command(threads, "fw_toggle",
                         <<"sudo", "ufw", IF active THEN "enable" ELSE "disable">>,
                         IF active THEN "enable" ELSE "disable"),
          status |-> IF active THEN "Enabling firewall..." ELSE "Disabling firewall...",
          undo |-> FALSE]
    ELSE IF system = "Linux" /\ "firewalld" \in bins
    THEN [threads |-> fox_run_command(threads, "fw_toggle",
                         <<"sudo", "systemctl", IF active THEN "start" ELSE "stop",
                           "firewalld">>, IF active THEN "enable" ELSE "disable"),
          status |-> IF active THEN "Enabling firewall..." ELSE "Disabling firewall...",
          undo |-> FALSE]
    ELSE IF system = "Linux" /\ "iptables" \in bins
    THEN [threads |-> threads,
          status |-> IF active THEN "Enabling firewall..." ELSE "Disabling firewall...",
          undo |-> TRUE]
    ELSE IF system = "Darwin"
    THEN [threads |-> fox_run_command(threads, "fw_toggle",
                         <<"sudo", "pfctl", IF active THEN "-e" ELSE "-d">>,
                         IF active THEN "enable" ELSE "disable"),
          status |-> IF active THEN "Enabling firewall..." ELSE "Disabling firewall...",
          undo |-> FALSE]
    ELSE [threads |-> threads,
          status |-> IF system = "Linux" THEN "No supported firewall found"
                     ELSE "Unsupported system for firewall management",
          undo |-> TRUE]

\* firewall_switch.set_active(v): notify::active is emitted when the value
\* changes and on_firewall_toggle runs before set_active returns.  When the
\* handler itself sets the switch back the handler is entered again, and so
\* on until the interpreter's recursion limit: the switch ends at either value.
fox_set_active(switch, threads, status, system, bins, v) ==
    IF v = switch
    THEN [switches |-> {switch}, threads |-> threads, status |-> status]
    ELSE LET h == fox_on_firewall_toggle(threads, system, bins, v)
         IN  [switches |-> IF h.undo THEN BOOLEAN ELSE {v},
              threads |-> h.threads, status |-> h.status]

\* "active" in result["stdout"]: a word that holds the letters "active"
FoxSaysActive(stdout) ==
    \E n \in DOMAIN stdout :
        Range(stdout[n]) \cap {"active", "inactive", "(active)"} # {}

\* process.communicate() returns with exit code rc; the callback is queued
\* with GLib.idle_add and the thread ends.  A successful install puts the
\* package into the package database; stdout of a listing is the database;
\* a ufw command acts on the system's ufw.
FoxExit ==
    \E i \in DOMAIN foxThreads, rc \in {0, 1} :
        LET t == foxThreads[i]
            db == IF t.kind = "install" /\ rc = 0
                  THEN foxPkgDb \cup {t.arg} ELSE foxPkgDb
            fd == FirewalldRun(firewalld, fwBins, t.cmd, rc)
            run == IF IsFirewalldCmd(t.cmd)
                   THEN [ufw |-> ufw, returncode |-> fd.returncode, stdout |-> fd.stdout]
                   ELSE RunWords(ufw, fwBins, t.cmd, rc)
        IN  /\ t.st = "running"
            /\ foxPkgDb' = db
            /\ ufw' = run.ufw
            /\ firewalld' = IF IsFirewalldCmd(t.cmd) THEN fd.firewalld ELSE firewalld
            /\ foxThreads' = RemoveAt(foxThreads, i)
            /\ foxIdleQ' = Append(foxIdleQ,
                   [kind |-> t.kind, arg |-> t.arg, returncode |-> run.returncode,
                    stdout |-> IF t.kind \in {"fw_status", "fw_toggle"} THEN run.stdout
                               ELSE IF rc = 0 /\ t.kind = "list_installed" THEN db
                               ELSE {}])
            /\ UNCHANGED <<foxPM, foxPkgAsked, foxStatus, foxInstalled, foxClicks, foxSwitch,
                           foxFwRules, fwBins, sysVars, exceptFox>>

\* the main loop runs the oldest queued callback
FoxCallback ==
    /\ foxIdleQ # <<>>
    /\ LET r == Head(foxIdleQ)
       IN  /\ foxIdleQ' = Tail(foxIdleQ)
           /\ IF r.kind = "install"
              THEN \* callback of on_install_package, foxden.py:2172-2179
                   /\ IF r.returncode = 0
                      THEN /\ foxThreads' = fox_refresh_packages(foxThreads, foxPM)
                           /\ foxStatus' = "Refreshing packages..."
                      ELSE /\ foxStatus' = "Error installing package"
                           /\ UNCHANGED foxThreads
                   /\ UNCHANGED <<foxInstalled, foxSwitch, foxFwRules>>
              ELSE IF r.kind = "list_installed"
              THEN \* installed_callback, foxden.py:1106-1163
                   /\ IF r.returncode = 0
                      THEN /\ foxInstalled' = r.stdout
                           /\ foxStatus' = "Installed packages refreshed"
                      ELSE /\ foxStatus' = "Error refreshing installed packages"
                           /\ UNCHANGED foxInstalled
                   /\ UNCHANGED <<foxThreads, foxSwitch, foxFwRules>>
              ELSE IF r.kind = "list_available"
              THEN \* available_callback, foxden.py:1165-1222
                   /\ foxStatus' = IF r.returncode = 0
                                   THEN "Available packages refreshed"
                                   ELSE "Error refreshing available packages"
                   /\ UNCHANGED <<foxThreads, foxInstalled, foxSwitch, foxFwRules>>
              ELSE IF r.kind \in {"fw_add", "fw_delete"}
              THEN \* callbacks of on_add_firewall_rule and
                   \* on_delete_firewall_rule, foxden.py:1908-1916, 1952-1960
                   /\ IF r.returncode = 0
                      THEN LET f == fox_refresh_firewall(foxThreads, SYSTEM, fwBins)
                           IN  /\ foxThreads' = f.threads
                               /\ foxStatus' = f.status
                      ELSE /\ foxStatus' = "Error changing firewall rule"
                           /\ UNCHANGED foxThreads
                   /\ UNCHANGED <<foxInstalled, foxSwitch, foxFwRules>>
              ELSE IF r.kind = "fw_status"
              THEN \* callback of refresh_firewall, foxden.py:920-941
                   /\ IF r.returncode = 0
                      THEN LET s == fox_set_active(foxSwitch, foxThreads, foxStatus,
                                                   SYSTEM, fwBins,
                                                   FoxSaysActive(r.stdout))
                           IN  /\ foxSwitch' \in s.switches
                               /\ foxThreads' = s.threads
                               /\ foxFwRules' = SelectSeq(r.stdout, LAMBDA line :
                                       line # <<>> /\ line[1] # "Status:")
                               /\ foxStatus' = "Firewall refreshed"
                      ELSE /\ foxStatus' = "Error refreshing firewall"
                           /\ UNCHANGED <<foxThreads, foxSwitch, foxFwRules>>
                   /\ UNCHANGED foxInstalled
              ELSE \* callback of on_firewall_toggle, foxden.py:1817-1826;
                   \* r.arg is the switch position the handler ran for:
                   \* "enable" for active, "disable" for not active
                   /\ IF r.returncode = 0
                      THEN LET f == fox_refresh_firewall(foxThreads, SYSTEM, fwBins)
                           IN  /\ foxThreads' = f.threads
                               /\ foxStatus' = f.status
                               /\ UNCHANGED foxSwitch
                      ELSE LET s == fox_set_active(foxSwitch, foxThreads,
                                                   "Error toggling firewall",
                                                   SYSTEM, fwBins, r.arg # "enable")
                           IN  /\ foxSwitch' \in s.switches
                               /\ foxThreads' = s.threads
                               /\ foxStatus' = s.status
                   /\ UNCHANGED <<foxInstalled, foxFwRules>>
    /\ UNCHANGED <<foxPM, foxPkgAsked, foxPkgDb, foxClicks, sysVars, ufwVars, exceptFox>>

\* on_add_firewall_rule answered OK, foxden.py:1850-1929
FoxAddFirewallRule ==
    \E action \in {"allow", "deny"}, protocol \in FwProtocols,
       port \in FwPorts \cup {""} :
        /\ foxClicks + fwOps < MaxFwOps
        /\ foxClicks' = foxClicks + 1
        /\ IF port = ""
           THEN UNCHANGED <<foxStatus, foxThreads>>      \* "Port is required"
           ELSE /\ foxStatus' = "Adding firewall rule..."
                /\ foxThreads' = fox_run_command(foxThreads, "fw_add",
                       <<"sudo", "ufw", action, port \o "/" \o protocol>>,
                       [action |-> action, protocol |-> protocol, port |-> port])
        /\ UNCHANGED <<foxPM, foxPkgAsked, foxIdleQ, foxInstalled, foxPkgDb, foxSwitch, foxFwRules,
                       sysVars, ufwVars, exceptFox>>

\* on_delete_firewall_rule(rule) answered YES, foxden.py:1931-1981; rule is a
\* line of the rules list
FoxDeleteFirewallRule ==
    \E n \in DOMAIN foxFwRules :
        LET parts == foxFwRules[n]
        IN  /\ foxClicks + fwOps < MaxFwOps
            /\ foxClicks' = foxClicks + 1
            /\ foxStatus' = "Deleting firewall rule..."
            /\ IF Len(parts) >= 4 /\ parts[1] \in {"ALLOW", "DENY", "REJECT"}
               THEN foxThreads' = fox_run_command(foxThreads, "fw_delete",
                        <<"sudo", "ufw", "delete",
                          CHOOSE a \in DOMAIN UfwActions : UfwActions[a] = parts[1],
                          parts[4]>>, parts)
               ELSE UNCHANGED foxThreads       \* "Cannot parse rule for deletion"
            /\ UNCHANGED <<foxPM, foxPkgAsked, foxIdleQ, foxInstalled, foxPkgDb, foxSwitch,
                           foxFwRules, sysVars, ufwVars, exceptFox>>

\* the firewall page is refreshed (refresh_all_data, foxden.py:75-78)
FoxRefreshFirewall ==
    /\ foxClicks + fwOps < MaxFwOps
    /\ foxClicks' = foxClicks + 1
    /\ LET f == fox_refresh_firewall(foxThreads, SYSTEM, fwBins)
       IN  /\ foxThreads' = f.threads
           /\ foxStatus' = f.status
    /\ UNCHANGED <<foxPM, foxPkgAsked, foxIdleQ, foxInstalled, foxPkgDb, foxSwitch, foxFwRules,
                   sysVars, ufwVars, exceptFox>>

\* the user flips the firewall switch: notify::active, on_firewall_toggle
FoxFirewallSwitched ==
    /\ foxClicks + fwOps < MaxFwOps
    /\ foxClicks' = foxClicks + 1
    /\ LET s == fox_set_active(foxSwitch, foxThreads, foxStatus, SYSTEM, fwBins,
                               ~foxSwitch)
       IN  /\ foxSwitch' \in s.switches
           /\ foxThreads' = s.threads
           /\ foxStatus' = s.status
    /\ UNCHANGED <<foxPM, foxPkgAsked, foxIdleQ, foxInstalled, foxPkgDb, foxFwRules,
                   sysVars, ufwVars, exceptFox>>

\* refresh_packages, foxden.py:1104-1244, as on_activate's refresh_all_data
\* (91, 75-80) and the refresh button (611) call it: without a known package
\* manager it sets the status and shows an error dialog, both with the text
\* "Unsupported package manager" (1243-1244)
FoxRefreshPackages ==
    /\ foxClicks < MaxClicks
    /\ foxClicks' = foxClicks + 1
    /\ foxPkgAsked' = "refresh_packages"
    /\ foxThreads' = fox_refresh_packages(foxThreads, foxPM)
    /\ foxStatus' = IF FoxListCmds(foxPM) = <<>>
                    THEN "Unsupported package manager"
                    ELSE foxStatus
    /\ UNCHANGED <<foxPM, foxIdleQ, foxInstalled, foxPkgDb, foxSwitch, foxFwRules,
                   sysVars, ufwVars, exceptFox>>

FoxNext ==
    FoxInstallPackage \/ FoxRefreshPackages \/ FoxPopen \/ FoxExit \/ FoxCallback

SpecFox == FoxInit /\ [][FoxNext]_vars

(***************************************************************************)
(* Kernel management: KernelManager                                        *)
(***************************************************************************)
\* Version strings as character codes ('.' = 46, '0'..'9' = 48..57):
\* "5.9", "5.10", "5.1", "6.1"
KernelVersions ==
    { <<53, 46, 57>>, <<53, 46, 49, 48>>, <<53, 46, 49>>, <<54, 46, 49>> }

\* largest keep_count the spin button is given in the model
MaxKeep == 2

\* Python str comparison a < b: first differing character decides, a proper
\* prefix is smaller
StrLess(a, b) ==
    \/ /\ Len(a) < Len(b)
       /\ \A j \in 1..Len(a) : a[j] = b[j]
    \/ \E i \in 1..Max(0, IF Len(a) < Len(b) THEN Len(a) ELSE Len(b)) :
          /\ \A j \in 1..(i - 1) : a[j] = b[j]
          /\ a[i] < b[i]

\* kernels.sort(key=version, reverse=True) on distinct versions
RECURSIVE SortDesc(_)
SortDesc(S) ==
    IF S = {} THEN <<>>
    ELSE LET m == CHOOSE x \in S : \A y \in S \ {x} : StrLess(y, x)
         IN  <<m>> \o SortDesc(S \ {m})

\* one entry of get_installed_kernels: 'current' is `version in current_version`
KernelEntry(v, cur) == [version |-> v, current |-> IsSubstr(v, cur)]

get_installed_kernels(system, files, cur) ==
    IF system = "Linux"
    THEN LET sorted == SortDesc(files)
         IN  [i \in 1..Len(sorted) |-> KernelEntry(sorted[i], cur)]
    ELSE <<>>

\* the loop of remove_old_kernels, lines 635-645: st = <<to_remove, kept>>
RECURSIVE RemovalLoopSkipNothing(_, _, _, _)
RemovalLoopSkipNothing(kernels, keep_count, i, st) ==
    IF i > Len(kernels) THEN st[1]
    ELSE IF st[2] < keep_count
         THEN RemovalLoopSkipNothing(kernels, keep_count, i + 1, <<st[1], st[2] + 1>>)
         ELSE RemovalLoopSkipNothing(kernels, keep_count, i + 1,
                                     <<Append(st[1], kernels[i]), st[2]>>)

RECURSIVE RemovalLoop(_, _, _, _)
RemovalLoop(kernels, keep_count, i, st) ==
    IF i > Len(kernels) THEN st[1]
    ELSE IF kernels[i].current
         THEN RemovalLoop(kernels, keep_count, i + 1, st)
         ELSE IF st[2] < keep_count
              THEN RemovalLoop(kernels, keep_count, i + 1, <<st[1], st[2] + 1>>)
              ELSE RemovalLoop(kernels, keep_count, i + 1,
                               <<Append(st[1], kernels[i]), st[2]>>)

\* the removal command for one kernel, lines 654-662
KernelRemoveCmd(pm, version) ==
    [tool |-> IF pm \in {"apt", "dnf", "zypper"} THEN pm ELSE "rm",
     version |-> version]

KernelInit ==
    /\ SysInit
    /\ boot \in SUBSET KernelVersions
    /\ running \in KernelVersions
    /\ kLast = NoKernelCall
    /\ IdleExceptKernel

\* a removal loop that goes on after a command has failed
RECURSIVE RemoveAll(_, _, _, _)
RemoveAll(pm, to_remove, i, fails) ==
    IF i > Len(to_remove)
    THEN [cmds |-> <<>>, codes |-> <<>>, ok |-> TRUE, named |-> <<>>]
    ELSE LET version == to_remove[i].version
             code == IF version \in fails THEN 1 ELSE 0
             rest == RemoveAll(pm, to_remove, i + 1, fails)
         IN  [cmds |-> <<KernelRemoveCmd(pm, version)>> \o rest.cmds,
              codes |-> <<code>> \o rest.codes,
              ok |-> code = 0 /\ rest.ok,
              named |-> IF code # 0 THEN version ELSE rest.named]

\* the loop over to_remove, lines 651-667, from position i: the commands
\* run with their exit codes, and for a failure the version the message
\* names.  fails holds the versions whose removal command exits non-zero.
RECURSIVE RemoveEach(_, _, _, _)
RemoveEach(pm, to_remove, i, fails) ==
    IF i > Len(to_remove)
    THEN [cmds |-> <<>>, codes |-> <<>>, ok |-> TRUE, named |-> <<>>]
    ELSE LET version == to_remove[i].version
             code == IF version \in fails THEN 1 ELSE 0
             rest == RemoveEach(pm, to_remove, i + 1, fails)
         IN  IF code # 0
             THEN [cmds |-> <<KernelRemoveCmd(pm, version)>>, codes |-> <<code>>,
                   ok |-> FALSE, named |-> version]
             ELSE [cmds |-> <<KernelRemoveCmd(pm, version)>> \o rest.cmds,
                   codes |-> <<code>> \o rest.codes,
                   ok |-> rest.ok, named |-> rest.named]

\* remove_old_kernels(keep_count, password), lines 629-675.  fails holds the
\* kernels whose removal command would exit non-zero.  A removal command
\* that succeeds takes the kernel's files out of /boot.
remove_old_kernels(keep_count, fails) ==
    \E kernels \in {get_installed_kernels(SYSTEM, boot, running)} :
    \E to_remove \in {RemovalLoop(kernels, keep_count, 1, <<(<<>>), 0>>)} :
    \E run \in {RemoveEach(PACKAGE_MANAGER, to_remove, 1, fails)} :
    LET gone == {run.cmds[i].version : i \in {j \in DOMAIN run.cmds : run.codes[j] = 0}}
    IN  /\ boot' = boot \ gone
        /\ kLast' =
             [called |-> TRUE, keep |-> keep_count, before |-> boot,
              after |-> boot \ gone,
              kernels |-> kernels, to_remove |-> to_remove,
              cmds |-> run.cmds, codes |-> run.codes,
              failed |-> IF run.ok THEN 0 ELSE Len(run.cmds),
              grub |-> (run.ok /\ to_remove # <<>> /\ PACKAGE_MANAGER = "apt"),
              ok |-> run.ok,
              msg |-> IF to_remove = <<>> THEN "No old kernels to remove"
                      ELSE IF run.ok THEN "Removed old kernels"
                      ELSE "Failed to remove kernel",
              named |-> run.named,
              count |-> IF to_remove # <<>> /\ run.ok THEN Len(to_remove) ELSE 0]
        /\ UNCHANGED <<running, sysVars, exceptKernel>>

\* on_remove_old_kernels, dockpanel.py:3251-3274, confirmed with a password
RemoveOldKernels ==
    \E keep_count \in 0..MaxKeep, fails \in SUBSET boot :
        remove_old_kernels(keep_count, fails)

\* a kernel package is installed outside the program
InstallKernel ==
    \E v \in KernelVersions \ boot :
        /\ boot' = boot \cup {v}
        /\ UNCHANGED <<running, kLast, sysVars, exceptKernel>>

KernelNext == RemoveOldKernels \/ InstallKernel

SpecKernel == KernelInit /\ [][KernelNext]_vars

(***************************************************************************)
(* Claims on kernel removal                                                *)
(***************************************************************************)
NonCurrentCount(kernels) ==
    Cardinality({i \in DOMAIN kernels : ~kernels[i].current})

\* C1: for every set of installed kernels and keep_count N >= 0, the removal
\* set of remove_old_kernels(N) holds no kernel flagged current, and when
\* every removal command succeeds exactly max(0, totalNonCurrent - N) kernels
\* are removed.
C1_NeverCurrentExactCount ==
    kLast.called =>
        /\ \A i \in DOMAIN kLast.to_remove : ~kLast.to_remove[i].current
        /\ \A i \in DOMAIN kLast.cmds :
              ~IsSubstr(kLast.cmds[i].version, running)
        /\ kLast.ok =>
              /\ Len(kLast.cmds) = Max(0, NonCurrentCount(kLast.kernels) - kLast.keep)
              /\ Cardinality(kLast.before \ kLast.after) =
                     Max(0, NonCurrentCount(kLast.kernels) - kLast.keep)

C1_Witness ==
    /\ kLast.called /\ kLast.ok
    /\ kLast.keep >= 1
    /\ Len(kLast.cmds) >= 1
    /\ \E i \in DOMAIN kLast.kernels : kLast.kernels[i].current

(***************************************************************************)
(* Claims on concurrent installs                                           *)
(***************************************************************************)
RunningInstalls ==
    {i \in DOMAIN foxThreads :
        foxThreads[i].kind = "install" /\ foxThreads[i].st = "running"}

\* C2: two concurrent install requests against the same package backend
\* execute serially: at no time are the external commands of two installs
\* running together.
C2_InstallsSerial == Cardinality(RunningInstalls) <= 1

(***************************************************************************)
(* dockpanel: the execution gateway, run_command / run_sudo_command        *)
(***************************************************************************)
\* A command string is a sequence of words as the shell reads them: blanks
\* separate the words, and the characters the shell gives a meaning to are
\* words of their own.
ShellSeparators == {";", "|", "&&"}
ShellRedirects == {">", ">>"}

FlushCmd(cmds, cur) == IF cur = <<>> THEN cmds ELSE Append(cmds, cur)

\* What `sh -c <string>` executes: the commands of the string, each a
\* sequence of arguments, each argument the words of one (quoted) string.
\* cmds: commands read so far; cur: arguments of the command being read;
\* arg: words of the open quoted string; inq: inside '...'; redir: the next
\* word names a redirection target.
RECURSIVE ShStep(_, _, _, _, _, _, _)
ShStep(toks, i, cmds, cur, arg, inq, redir) ==
    IF i > Len(toks)
    THEN IF inq THEN <<>>            \* unterminated quote: nothing runs
         ELSE FlushCmd(cmds, cur)
    ELSE LET t == toks[i]
         IN  IF inq
             THEN IF t = "'"
                  THEN IF redir
                       THEN ShStep(toks, i + 1, cmds, cur, <<>>, FALSE, FALSE)
                       ELSE ShStep(toks, i + 1, cmds, Append(cur, arg), <<>>,
                                   FALSE, FALSE)
                  ELSE ShStep(toks, i + 1, cmds, cur, Append(arg, t), TRUE, redir)
             ELSE IF t = "'"
             THEN ShStep(toks, i + 1, cmds, cur, <<>>, TRUE, redir)
             ELSE IF t \in ShellSeparators
             THEN ShStep(toks, i + 1, FlushCmd(cmds, cur), <<>>, <<>>, FALSE, FALSE)
             ELSE IF t \in ShellRedirects
             THEN ShStep(toks, i + 1, cmds, cur, <<>>, FALSE, TRUE)
             ELSE IF redir
             THEN ShStep(toks, i + 1, cmds, cur, <<>>, FALSE, FALSE)
             ELSE ShStep(toks, i + 1, cmds, Append(cur, <<t>>), <<>>, FALSE, FALSE)

ShParse(toks) == ShStep(toks, 1, <<>>, <<>>, <<>>, FALSE, FALSE)

\* run_command(cmd, shell=True, timeout=30), dockpanel.py:78-92: the process
\* spawned is `sh -c cmd`; argvs is what that shell goes on to execute.
run_command(cmd) ==
    [cmd |-> cmd, shell |-> TRUE, timeout |-> 30, environ |-> <<>>,
     argvs |-> ShParse(cmd)]

\* run_sudo_command(cmd, password), dockpanel.py:94-100; <<>> is no password
run_sudo_command(cmd, password) ==
    IF password # <<>>
    THEN run_command(<<"echo", "'">> \o password \o <<"'", "|", "sudo", "-S">> \o cmd)
    ELSE run_command(<<"sudo">> \o cmd)

(***************************************************************************)
(* dockpanel: PackageManager                                               *)
(***************************************************************************)
PkgBackends == {"apt", "dnf", "zypper", "pacman", "brew"}

\* the command tables of install_package, remove_package and update_system,
\* dockpanel.py:1127-1133, 1149-1155, 1171-1177
PkgInstallCmd(manager, package) ==
    IF manager = "apt" THEN <<"apt", "install", "-y">> \o package
    ELSE IF manager = "dnf" THEN <<"dnf", "install", "-y">> \o package
    ELSE IF manager = "zypper" THEN <<"zypper", "install", "-y">> \o package
    ELSE IF manager = "pacman" THEN <<"pacman", "-S", "--noconfirm">> \o package
    ELSE <<"brew", "install">> \o package

PkgRemoveCmd(manager, package) ==
    IF manager = "apt" THEN <<"apt", "remove", "-y">> \o package
    ELSE IF manager = "dnf" THEN <<"dnf", "remove", "-y">> \o package
    ELSE IF manager = "zypper" THEN <<"zypper", "remove", "-y">> \o package
    ELSE IF manager = "pacman" THEN <<"pacman", "-R", "--noconfirm">> \o package
    ELSE <<"brew", "uninstall">> \o package

PkgUpdateCmd(manager) ==
    IF manager = "apt" THEN <<"apt", "update", "&&", "apt", "upgrade", "-y">>
    ELSE IF manager = "dnf" THEN <<"dnf", "upgrade", "-y">>
    ELSE IF manager = "zypper" THEN <<"zypper", "update", "-y">>
    ELSE IF manager = "pacman" THEN <<"pacman", "-Syu", "--noconfirm">>
    ELSE <<"brew", "update", "&&", "brew", "upgrade">>

PkgCmd(op, manager, package) ==
    IF op = "install" THEN PkgInstallCmd(manager, package)
    ELSE IF op = "remove" THEN PkgRemoveCmd(manager, package)
    ELSE PkgUpdateCmd(manager)

\* `if self.manager != "brew": run_sudo_command(...) else: run_command(...)`
PkgDispatch(manager, cmd, password) ==
    IF manager # "brew" THEN run_sudo_command(cmd, password) ELSE run_command(cmd)

\* the listing commands load_packages runs through get_installed_packages and
\* get_upgradable_packages, dockpanel.py:1093-1099, 1193-1199
PkgListCmds(manager) ==
    IF manager = "apt"
    THEN << <<"dpkg", "-l">>, <<"apt", "list", "--upgradable">> >>
    ELSE IF manager = "dnf"
    THEN << <<"dnf", "list", "installed">>, <<"dnf", "check-update">> >>
    ELSE IF manager = "zypper"
    THEN << <<"zypper", "search", "-i">>, <<"zypper", "list-updates">> >>
    ELSE IF manager = "pacman" THEN << <<"pacman", "-Q">>, <<"pacman", "-Qu">> >>
    ELSE << <<"brew", "list">>, <<"brew", "outdated">> >>

load_packages(manager) ==
    IF manager \in PkgBackends
    THEN [i \in 1..2 |-> run_command(PkgListCmds(manager)[i])]
    ELSE <<>>

\* install_package / remove_package / update_system, dockpanel.py:1122-1186:
\* the run of one of them with exit code rc of the spawned shell
PkgOperation(op, manager, package, password, rc) ==
    IF manager \notin PkgBackends
    THEN [op |-> op, input |-> package, password |-> password, spawns |-> <<>>,
          ok |-> FALSE, msg |-> "No package manager found"]
    ELSE [op |-> op, input |-> package, password |-> password,
          spawns |-> <<PkgDispatch(manager, PkgCmd(op, manager, package), password)>>,
          ok |-> (rc = 0), msg |-> IF rc = 0 THEN "stdout" ELSE "stderr"]

\* text the package handlers can be given as a package name
PkgNames ==
    { <<"vim">>, <<"nano">>, <<"vim", ";", "reboot">>, <<"vim", "nano">> }

\* what the user types into the password dialog
Passwords == { <<"hunter2">>, <<"letmein">> }

PkgInit ==
    /\ SysInit
    /\ pkgRun = NoPkgRun
    /\ pkgPrev = NoPkgRun
    /\ IdleExceptPkg

\* on_package_install / on_package_remove / on_package_update,
\* dockpanel.py:3445-3507, through show_password_dialog, 3023-3031: the
\* callback runs only when the dialog returned a non-empty password; on
\* success the handler reloads the package lists.
PkgHandler(op, package) ==
    \E answer \in Passwords \cup {<<>>}, rc \in {0, 1} :
        IF answer = <<>>
        THEN UNCHANGED vars
        ELSE LET r == PkgOperation(op, PACKAGE_MANAGER, package, answer, rc)
             IN  /\ pkgRun' = IF r.ok
                              THEN [r EXCEPT !.spawns = @ \o load_packages(PACKAGE_MANAGER)]
                              ELSE r
                 /\ pkgPrev' = pkgRun
                 /\ UNCHANGED <<sysVars, exceptPkg>>

OnPackageInstall == \E package \in PkgNames : PkgHandler("install", package)

OnPackageRemove == \E package \in PkgNames : PkgHandler("remove", package)

OnPackageUpdate == PkgHandler("upgrade", <<>>)

PkgNext == OnPackageInstall \/ OnPackageRemove \/ OnPackageUpdate

SpecPkg == PkgInit /\ [][PkgNext]_vars

(***************************************************************************)
(* Claims on the execution gateway and the package manager                 *)
(***************************************************************************)
\* the words of every argument of every command a run executed
ArgWords(spawn) ==
    UNION { UNION { Range(spawn.argvs[c][a]) : a \in DOMAIN spawn.argvs[c] }
            : c \in DOMAIN spawn.argvs }

\* C3: the elevation password reaches sudo only through a non-echoing
\* channel: it is in no command string, in no argument of a command and in
\* no environment variable of a spawned process.
C3_PasswordNotInCommand ==
    \A i \in DOMAIN pkgRun.spawns :
        LET sp == pkgRun.spawns[i]
        IN  \A w \in Range(pkgRun.password) :
                /\ w \notin Range(sp.cmd)
                /\ w \notin ArgWords(sp)
                /\ w \notin Range(sp.environ)

\* the programs a spawn executes, and the number of arguments of each
Programs(spawn) == [c \in DOMAIN spawn.argvs |-> spawn.argvs[c][1]]
ArgCounts(spawn) == [c \in DOMAIN spawn.argvs |-> Len(spawn.argvs[c])]

\* C4: a command that includes user-supplied text is spawned as an argument
\* vector without a shell: the text reaches the intended program unchanged
\* as one argument, and two runs that differ only in that text execute the
\* same programs with the same numbers of arguments.
C4_UserTextIsOneArgument ==
    /\ pkgRun.op \in {"install", "remove"} /\ pkgRun.spawns # <<>> =>
          LET sp == pkgRun.spawns[1]
          IN  \E c \in DOMAIN sp.argvs : \E a \in DOMAIN sp.argvs[c] :
                  sp.argvs[c][a] = pkgRun.input
    /\ /\ pkgRun.op \in {"install", "remove"}
       /\ pkgPrev.op = pkgRun.op
       /\ pkgPrev.password = pkgRun.password
       /\ pkgRun.spawns # <<>> /\ pkgPrev.spawns # <<>>
       => /\ Programs(pkgRun.spawns[1]) = Programs(pkgPrev.spawns[1])
          /\ ArgCounts(pkgRun.spawns[1]) = ArgCounts(pkgPrev.spawns[1])

\* a command of a spawn runs elevated when sudo is the program that runs it
Elevated(argv) == argv[1] = <<"sudo">>

\* the commands of a spawn that belong to the operation (not the `echo` that
\* feeds the password to sudo)
OperationCmds(spawn) ==
    {c \in DOMAIN spawn.argvs : spawn.argvs[c][1] # <<"echo">>}

\* text without a word the shell gives a meaning to
PlainText(text) ==
    Range(text) \cap (ShellSeparators \cup ShellRedirects \cup {"'"}) = {}

\* C10: install, remove and upgrade-all run their command without privilege
\* elevation on brew and with privilege elevation on every other backend
\* (stated for package names of plain words).
C10_ElevationByBackend ==
    (/\ pkgRun.op \in {"install", "remove", "upgrade"}
     /\ PlainText(pkgRun.input)
     /\ pkgRun.spawns # <<>>) =>
        LET sp == pkgRun.spawns[1]
        IN  \A c \in OperationCmds(sp) :
                Elevated(sp.argvs[c]) <=> PACKAGE_MANAGER # "brew"

(***************************************************************************)
(* dockpanel: RepositoryManager                                            *)
(***************************************************************************)
\* A line of a sources file is the sequence of its pieces ("#", "deb ", the
\* url and suite, a component); its newline is not kept.  The empty
\* sequence is an empty line.
AptLines ==
    { <<"deb ", "x">>, <<"deb ", "x", " c">>, <<"#", "deb ", "x">>, <<"#", "note">> }

SourcesList == "/etc/apt/sources.list"
ExtraList == "/etc/apt/sources.list.d/extra.list"

\* the sources files an apt system starts with: sources.list, and possibly
\* one file matched by glob("/etc/apt/sources.list.d/*.list")
AptConfigs ==
    { <<[path |-> SourcesList, lines |-> <<l>>]>> : l \in AptLines }
    \cup { <<[path |-> SourcesList, lines |-> <<l1>>],
             [path |-> ExtraList, lines |-> <<l2>>]>> : l1, l2 \in AptLines }

\* the repositories a dnf or zypper system starts with
RepoDbs ==
    { <<[id |-> <<"a">>, enabled |-> e]>> : e \in BOOLEAN }
    \cup { <<[id |-> <<"a">>, enabled |-> e1], [id |-> <<"b">>, enabled |-> e2]>> :
             e1, e2 \in BOOLEAN }

\* the pacman.conf a pacman system starts with
PacConfs ==
    { <<<<"[", "options", "]">>, <<>>, first, <<"Server = ", "u">>, <<>>,
        <<"[", "b", "]">>, <<"Server = ", "v">>>> :
          first \in { <<"[", "a", "]">>, <<"#", "[", "a", "]">> } }

\* the names the manager's verbs are called with
RepoArgs(pm) ==
    IF pm = "apt" THEN { <<"deb ", "x">>, <<"deb ", "x", " c">> }
    ELSE { <<"a">>, <<"b">> }

\* the urls add_repository is called with
RepoUrls == { <<"x">>, <<"y", " c">> }

\* calls of the manager in one run
MaxRepoOps == 2

\* line.replace('#', '')
StripHash(line) == SelectSeq(line, LAMBDA t : t # "#")

\* get_repositories, apt branch, dockpanel.py:222-238: the entries of one file
RECURSIVE AptListFile(_, _, _)
AptListFile(path, lines, n) ==
    IF n > Len(lines) THEN <<>>
    ELSE LET line == lines[n]
             rest == AptListFile(path, lines, n + 1)
         IN  IF line # <<>> /\ line[1] # "#" /\ "deb " \in Range(line)
             THEN <<[file |-> path, line |-> n, name |-> StripHash(line),
                     enabled |-> ~StartsWith(line, <<"#", "deb ">>),
                     type |-> "apt"]>> \o rest
             ELSE rest

RECURSIVE AptList(_, _)
AptList(files, k) ==
    IF k > Len(files) THEN <<>>
    ELSE AptListFile(files[k].path, files[k].lines, 1) \o AptList(files, k + 1)

\* what `dnf repolist -v` prints: the enabled repositories, some lines each
RECURSIVE DnfRepolist(_, _)
DnfRepolist(db, k) ==
    IF k > Len(db) THEN <<>>
    ELSE (IF db[k].enabled
          THEN << <<"Repo-id", ":">> \o db[k].id,
                  <<"Repo-name", ":">> \o db[k].id \o <<" packages">>,
                  <<>> >>
          ELSE <<>>) \o DnfRepolist(db, k + 1)

\* line.split(':', 1)[1].strip()
AfterColon(line) ==
    LET i == CHOOSE i \in DOMAIN line :
                 line[i] = ":" /\ \A j \in 1..(i - 1) : line[j] # ":"
    IN  SubSeq(line, i + 1, Len(line))

\* get_repositories, dnf branch, dockpanel.py:243-252
RECURSIVE DnfList(_, _)
DnfList(out, n) ==
    IF n > Len(out) THEN <<>>
    ELSE (IF "Repo-id" \in Range(out[n])
          THEN <<[name |-> AfterColon(out[n]), enabled |-> TRUE, type |-> "dnf"]>>
          ELSE <<>>) \o DnfList(out, n + 1)

\* what `zypper lr` prints, each line as line.split('|') with the cells
\* stripped: the header "# | Alias | Name | Enabled | ...", a rule without
\* '|', and one row for every repository
RECURSIVE ZypperRows(_, _)
ZypperRows(db, k) ==
    IF k > Len(db) THEN <<>>
    ELSE << <<ToString(k), db[k].id, db[k].id \o <<" packages">>,
              IF db[k].enabled THEN "Yes" ELSE "No", "Yes", "No">> >>
         \o ZypperRows(db, k + 1)

ZypperLr(db) ==
    << <<"#", "Alias", "Name", "Enabled", "GPG Check", "Refresh">>,
       <<"--+-------+------+---------+-----------+--------">> >>
    \o ZypperRows(db, 1)

\* get_repositories, zypper branch, dockpanel.py:255-267: parts[1] is the
\* alias and parts[2] is compared with 'Yes'
RECURSIVE ZypperList(_, _)
ZypperList(out, n) ==
    IF n > Len(out) THEN <<>>
    ELSE LET parts == out[n]
         IN  (IF parts # <<>> /\ parts[1] # "#" /\ Len(parts) >= 2 /\ Len(parts) >= 3
              THEN <<[name |-> parts[2], enabled |-> (parts[3] = "Yes"),
                      type |-> "zypper"]>>
              ELSE <<>>) \o ZypperList(out, n + 1)

\* grep -E '^\[.*\]' /etc/pacman.conf
GrepSections(conf) ==
    SelectSeq(conf, LAMBDA line :
        line # <<>> /\ line[1] = "[" /\ "]" \in Range(Tail(line)))

\* get_repositories, pacman branch, dockpanel.py:270-280
PacmanList(out) ==
    [n \in DOMAIN out |->
        [name |-> StripHash(out[n]),
         enabled |-> ~StartsWith(out[n], <<"#", "[">>),
         type |-> "pacman"]]

\* RepositoryManager.get_repositories, dockpanel.py:214-282
get_repositories(pm, files, db, conf) ==
    IF pm = "apt" THEN AptList(files, 1)
    ELSE IF pm = "dnf" THEN DnfList(DnfRepolist(db, 1), 1)
    ELSE IF pm = "zypper" THEN ZypperList(ZypperLr(db), 1)
    ELSE IF pm = "pacman" THEN PacmanList(GrepSections(conf))
    ELSE <<>>

\* How `echo '<content>' > file` behind run_sudo_command can end.  The
\* redirection is the calling shell's: "denied" is that shell failing to open
\* the file (nothing changes); "truncated" is the file opened and emptied and
\* the command behind the pipe not writing (sudo rejects the password, or
\* the process is killed at the timeout); "written" is echo's output in it.
WriteOutcomes == {"written", "denied", "truncated"}

EchoRedirect(old, output, outcome) ==
    IF outcome = "written" THEN output
    ELSE IF outcome = "denied" THEN old
    ELSE <<>>

\* the result of a manager verb: the stores after it, the (success, message)
\* it returns, the file write it made, if any, and the commands of a
\* two-step verb with their exit codes
RepoResult(files, db, conf, ok, msg) ==
    [files |-> files, db |-> db, conf |-> conf, ok |-> ok, msg |-> msg,
     wrote |-> FALSE, old |-> <<>>, new |-> <<>>, after |-> <<>>, steps |-> <<>>]

\* a verb that runs its second command whatever the first one returned
StepsRegardless(first, code, second, code2) ==
    <<[cmd |-> first, returncode |-> code], [cmd |-> second, returncode |-> code2]>>

\* the commands a two-step verb runs: `if code == 0:` guards the second
\* run_sudo_command, dockpanel.py:297-300, 355-358, 412-415, 557-559,
\* 574-576, 925-929, 970-974
Steps(first, code, second, code2) ==
    IF code = 0
    THEN <<[cmd |-> first, returncode |-> code], [cmd |-> second, returncode |-> code2]>>
    ELSE <<[cmd |-> first, returncode |-> code]>>

\* the rewrite of sources file k with new_lines, dockpanel.py:410-415 and
\* 353-358: ''.join(new_lines) ends with the last line's newline and echo
\* adds one, so the output ends with an empty line; then `apt update`
AptRewrite(files, k, new_lines, outcome, rc, done) ==
    LET output == Append(new_lines, <<>>)
        after == EchoRedirect(files[k].lines, output, outcome)
    IN  [files |-> [files EXCEPT ![k].lines = after], db |-> <<>>, conf |-> <<>>,
         ok |-> (outcome = "written" /\ rc = 0),
         msg |-> IF outcome = "written" /\ rc = 0 THEN done ELSE "stderr",
         wrote |-> TRUE, old |-> files[k].lines, new |-> output, after |-> after,
         steps |-> Steps(<<"echo", ">", files[k].path>>,
                         IF outcome = "written" THEN 0 ELSE 1,
                         <<"apt", "update">>, rc)]

\* toggle_repository, apt branch, the loop body at dockpanel.py:399-407
ToggleLine(line, repo_name, enable) ==
    IF IsSubstr(repo_name, line)
    THEN IF enable /\ StartsWith(line, <<"#", "deb ">>) THEN Tail(line)
         ELSE IF ~enable /\ StartsWith(line, <<"deb ">>) THEN <<"#">> \o line
         ELSE line
    ELSE line

ToggleLines(lines, repo_name, enable) ==
    [n \in DOMAIN lines |-> ToggleLine(lines[n], repo_name, enable)]

\* s/^#\[name\]/[name/ and s/^\[name\]/#[name/, dockpanel.py:434-436
SedToggle(line, repo_name, enable) ==
    LET shown == <<"[">> \o repo_name \o <<"]">>
        hidden == <<"#">> \o shown
    IN  IF enable /\ StartsWith(line, hidden)
        THEN <<"[">> \o repo_name \o SubSeq(line, Len(hidden) + 1, Len(line))
        ELSE IF ~enable /\ StartsWith(line, shown)
        THEN <<"#", "[">> \o repo_name \o SubSeq(line, Len(shown) + 1, Len(line))
        ELSE line

\* dnf config-manager / zypper: the repository with this id, or 0
DbIndex(db, id) ==
    IF \E k \in DOMAIN db : db[k].id = id
    THEN CHOOSE k \in DOMAIN db : db[k].id = id
    ELSE 0

\* RepositoryManager.toggle_repository, dockpanel.py:384-444.  outcome and
\* rc are the environment's part: how the file write ends and the exit code
\* of the (last) command.
toggle_repository(pm, repo_name, enable, files, db, conf, outcome, rc) ==
    IF pm = "apt"
    THEN LET hits == {k \in DOMAIN files :
                        ToggleLines(files[k].lines, repo_name, enable) # files[k].lines}
         IN  IF hits = {}
             THEN RepoResult(files, db, conf, FALSE, "Repository not found")
             ELSE LET k == CHOOSE k \in hits : \A h \in hits : k <= h
                  IN  AptRewrite(files, k, ToggleLines(files[k].lines, repo_name, enable),
                                 outcome, rc, "Repository toggled successfully")
    ELSE IF pm = "dnf"
    THEN \* dnf config-manager --enable|--disable <name>
         LET k == DbIndex(db, repo_name)
         IN  IF rc = 0 /\ k # 0
             THEN RepoResult(files, [db EXCEPT ![k].enabled = enable], conf, TRUE, "stdout")
             ELSE RepoResult(files, db, conf, FALSE, "stderr")
    ELSE IF pm = "zypper"
    THEN \* zypper enablerepo|disablerepo <name>: zypper has no such command
         RepoResult(files, db, conf, FALSE, "stderr")
    ELSE IF pm = "pacman"
    THEN IF rc = 0
         THEN RepoResult(files, db,
                         [n \in DOMAIN conf |-> SedToggle(conf[n], repo_name, enable)],
                         TRUE, "Repository toggled successfully")
         ELSE RepoResult(files, db, conf, FALSE, "stderr")
    ELSE RepoResult(files, db, conf, FALSE, "Unsupported package manager")

\* sed -i '/\[name\]/,/^$/d', dockpanel.py:374: every line from one holding
\* [name] to the next empty line is deleted
RECURSIVE SedDeleteRange(_, _, _, _)
SedDeleteRange(lines, n, pat, inrange) ==
    IF n > Len(lines) THEN <<>>
    ELSE IF inrange
    THEN SedDeleteRange(lines, n + 1, pat, lines[n] # <<>>)
    ELSE IF IsSubstr(pat, lines[n])
    THEN SedDeleteRange(lines, n + 1, pat, TRUE)
    ELSE <<lines[n]>> \o SedDeleteRange(lines, n + 1, pat, FALSE)

\* the entries of db other than entry k
DbWithout(db, k) == SubSeq(db, 1, k - 1) \o SubSeq(db, k + 1, Len(db))

\* RepositoryManager.remove_repository, dockpanel.py:331-381
remove_repository(pm, repo_name, files, db, conf, outcome, rc) ==
    IF pm = "apt"
    THEN LET Kept(lines) == SelectSeq(lines, LAMBDA line : ~IsSubstr(repo_name, line))
             hits == {k \in DOMAIN files : Kept(files[k].lines) # files[k].lines}
         IN  IF hits = {}
             THEN RepoResult(files, db, conf, FALSE, "Repository not found")
             ELSE LET k == CHOOSE k \in hits : \A h \in hits : k <= h
                  IN  AptRewrite(files, k, Kept(files[k].lines), outcome, rc,
                                 "Repository removed successfully")
    ELSE IF pm = "dnf"
    THEN \* dnf config-manager --disable <name>
         LET k == DbIndex(db, repo_name)
         IN  IF rc = 0 /\ k # 0
             THEN RepoResult(files, [db EXCEPT ![k].enabled = FALSE], conf, TRUE, "stdout")
             ELSE RepoResult(files, db, conf, FALSE, "stderr")
    ELSE IF pm = "zypper"
    THEN \* zypper removerepo <name>
         LET k == DbIndex(db, repo_name)
         IN  IF rc = 0 /\ k # 0
             THEN RepoResult(files, DbWithout(db, k), conf, TRUE, "stdout")
             ELSE RepoResult(files, db, conf, FALSE, "stderr")
    ELSE IF pm = "pacman"
    THEN IF rc = 0
         THEN RepoResult(files, db,
                         SedDeleteRange(conf, 1, <<"[">> \o repo_name \o <<"]">>, FALSE),
                         TRUE, "Repository removed successfully")
         ELSE RepoResult(files, db, conf, FALSE, "stderr")
    ELSE RepoResult(files, db, conf, FALSE, "Unsupported package manager")

\* the sources file with this path, or 0
FileIndex(files, path) ==
    IF \E k \in DOMAIN files : files[k].path = path
    THEN CHOOSE k \in DOMAIN files : files[k].path = path
    ELSE 0

\* RepositoryManager.add_repository, dockpanel.py:285-328.  repo_name "" is
\* no name given; now is int(time.time()).
add_repository(pm, repo_url, repo_name, files, db, conf, outcome, rc, now) ==
    IF pm = "apt"
    THEN LET name == IF repo_name = "" THEN "custom-repo-" \o ToString(now)
                     ELSE repo_name
             sources_file == "/etc/apt/sources.list.d/" \o name \o ".list"
             k == FileIndex(files, sources_file)
             old == IF k = 0 THEN <<>> ELSE files[k].lines
             \* echo 'deb {repo_url}' > {sources_file}
             output == << <<"deb ">> \o repo_url >>
             after == EchoRedirect(old, output, outcome)
             made == [path |-> sources_file, lines |-> after]
         IN  [files |-> IF k # 0 THEN [files EXCEPT ![k] = made]
                        ELSE IF outcome = "denied" THEN files
                        ELSE Append(files, made),
              db |-> db, conf |-> conf,
              ok |-> (outcome = "written" /\ rc = 0),
              msg |-> IF outcome = "written" /\ rc = 0
                      THEN "Repository added successfully" ELSE "stderr",
              wrote |-> TRUE, old |-> old, new |-> output, after |-> after,
              steps |-> Steps(<<"echo", ">", sources_file>>,
                              IF outcome = "written" THEN 0 ELSE 1,
                              <<"apt", "update">>, rc)]
    ELSE IF pm \in {"dnf", "zypper"}
    THEN \* dnf config-manager --add-repo <url> / zypper addrepo <url>
         IF rc = 0 /\ DbIndex(db, repo_url) = 0
         THEN RepoResult(files, Append(db, [id |-> repo_url, enabled |-> TRUE]),
                         conf, TRUE, "stdout")
         ELSE RepoResult(files, db, conf, FALSE, "stderr")
    ELSE IF pm = "pacman"
    THEN \* cp pacman.conf pacman.conf.bak, then
         \* echo -e '\n[{repo_name}]\nServer = {repo_url}' >> /etc/pacman.conf
         LET name == IF repo_name = "" THEN repo_url[Len(repo_url)] ELSE repo_name
             added == << <<>>, <<"[", name, "]">>, <<"Server = ">> \o repo_url >>
         IN  IF outcome = "written" /\ rc = 0
             THEN RepoResult(files, db, conf \o added, TRUE,
                             "Repository added successfully")
             ELSE RepoResult(files, db, conf, FALSE, "stderr")
    ELSE RepoResult(files, db, conf, FALSE, "Unsupported package manager")

\* the state of the repository called name as a listing shows it
Observed(listing, name) ==
    IF \E i \in DOMAIN listing : listing[i].name = name /\ listing[i].enabled
    THEN "enabled"
    ELSE IF \E i \in DOMAIN listing : listing[i].name = name
    THEN "disabled"
    ELSE "absent"

RepoInit ==
    /\ SysInit
    /\ aptFiles \in (IF PACKAGE_MANAGER = "apt" THEN AptConfigs ELSE {<<>>})
    /\ repoDb \in (IF PACKAGE_MANAGER \in {"dnf", "zypper"} THEN RepoDbs ELSE {<<>>})
    /\ pacConf \in (IF PACKAGE_MANAGER = "pacman" THEN PacConfs ELSE {<<>>})
    /\ repoLast = NoRepoCall
    /\ repoPrev = NoRepoCall
    /\ repoOps = 0
    /\ IdleExceptRepo

\* a verb of the manager has returned r: the stores are what it left, and
\* the call is remembered with the state the listing showed before it
RepoCalled(op, repo_name, enable, r) ==
    /\ repoOps + stepOps < MaxRepoOps
    /\ repoOps' = repoOps + 1
    /\ aptFiles' = r.files
    /\ repoDb' = r.db
    /\ pacConf' = r.conf
    /\ repoPrev' = repoLast
    /\ repoLast' = [op |-> op, name |-> repo_name, enable |-> enable,
                    ok |-> r.ok, msg |-> r.msg,
                    before |-> Observed(get_repositories(PACKAGE_MANAGER, aptFiles,
                                                         repoDb, pacConf), repo_name),
                    wrote |-> r.wrote, old |-> r.old, new |-> r.new,
                    after |-> r.after, steps |-> r.steps]
    /\ UNCHANGED <<sysVars, exceptRepo>>

ToggleRepository ==
    \E repo_name \in RepoArgs(PACKAGE_MANAGER), enable \in BOOLEAN,
       outcome \in WriteOutcomes, rc \in {0, 1} :
        RepoCalled("toggle", repo_name, enable,
                   toggle_repository(PACKAGE_MANAGER, repo_name, enable,
                                     aptFiles, repoDb, pacConf, outcome, rc))

RemoveRepository ==
    \E repo_name \in RepoArgs(PACKAGE_MANAGER),
       outcome \in WriteOutcomes, rc \in {0, 1} :
        RepoCalled("remove", repo_name, FALSE,
                   remove_repository(PACKAGE_MANAGER, repo_name,
                                     aptFiles, repoDb, pacConf, outcome, rc))

AddRepository ==
    \E repo_url \in RepoUrls, repo_name \in {"", "extra"},
       outcome \in WriteOutcomes, rc \in {0, 1} :
        RepoCalled("add", repo_url, TRUE,
                   add_repository(PACKAGE_MANAGER, repo_url, repo_name,
                                  aptFiles, repoDb, pacConf, outcome, rc, repoOps))

RepoNext == ToggleRepository \/ RemoveRepository \/ AddRepository

SpecRepo == RepoInit /\ [][RepoNext]_vars

\* C5: toggle_repository(name, True) followed by toggle_repository(name,
\* False), both reporting success, leaves the repository in the state the
\* listing showed before the two calls, on every backend.
C5_ToggleTwiceRestores ==
    (/\ repoPrev.op = "toggle" /\ repoPrev.enable /\ repoPrev.ok
     /\ repoLast.op = "toggle" /\ ~repoLast.enable /\ repoLast.ok
     /\ repoLast.name = repoPrev.name) =>
        Observed(get_repositories(PACKAGE_MANAGER, aptFiles, repoDb, pacConf),
                 repoLast.name) = repoPrev.before

\* C6: on apt, after add, remove or toggle has attempted its write, the
\* sources file holds the complete old content or the complete new content,
\* whether the write step succeeded, failed or was interrupted.
C6_AptRewriteAtomic ==
    (PACKAGE_MANAGER = "apt" /\ repoLast.wrote) =>
        repoLast.after \in {repoLast.old, repoLast.new}

(***************************************************************************)
(* dockpanel: FirewallManager and its handlers                             *)
(***************************************************************************)
\* the systems modelled have ufw or no firewall program (no firewalld)
FwInstalls == { {"ufw"}, {} }

\* what the password dialog of a firewall handler returns
FwAnswers == { <<"hunter2">>, <<>> }

\* the words of the last command of the pipeline a spawned shell runs
LastWords(spawn) ==
    IF spawn.argvs = <<>> THEN <<>>
    ELSE LET argv == spawn.argvs[Len(spawn.argvs)]
         IN  [k \in DOMAIN argv |-> argv[k][1]]

\* get_firewall_info, dockpanel.py:837-847: the rules read from the lines
\* of `ufw status verbose`
RECURSIVE ParseUfwStatus(_, _)
ParseUfwStatus(stdout, n) ==
    IF n > Len(stdout) THEN <<>>
    ELSE LET parts == stdout[n]
         IN  (IF parts # <<>> /\ parts[1] \notin {"Status:", "Action", "--"}
                 /\ Len(parts) >= 4
              THEN <<[action |-> parts[1],
                      direction |-> parts[2],
                      protocol |-> parts[4],
                      source |-> IF Len(parts) > 4 THEN parts[5] ELSE "any",
                      destination |-> IF Len(parts) > 5 THEN parts[6] ELSE "any"]>>
              ELSE <<>>) \o ParseUfwStatus(stdout, n + 1)

\* FirewallManager.get_firewall_info, dockpanel.py:814-891, on a system
\* without firewalld; rc is the exit code the environment gives the
\* unprivileged `ufw status verbose`
get_firewall_info(system, bins, u, rc) ==
    IF system = "Linux" /\ "ufw" \in bins
    THEN LET run == UfwRun(u, bins, <<"status", "verbose">>, rc)
         IN  IF run.returncode = 0
             THEN [backend |-> "ufw",
                   active |-> \E n \in DOMAIN run.stdout :
                                  StartsWith(run.stdout[n], <<"Status:", "active">>),
                   rules |-> ParseUfwStatus(run.stdout, 1)]
             ELSE [backend |-> "ufw", active |-> FALSE, rules |-> <<>>]
    ELSE [backend |-> "unknown", active |-> FALSE, rules |-> <<>>]

\* load_firewall_rules, dockpanel.py:2817-2829: the rows of the rules view
load_firewall_rules(info) ==
    [n \in DOMAIN info.rules |->
        <<info.rules[n].action, info.rules[n].direction, info.rules[n].protocol,
          info.rules[n].source, info.rules[n].destination>>]

\* the command string add_firewall_rule and remove_firewall_rule build for
\* a ufw rule, dockpanel.py:903-910 and 949-956
FwCmd(action, rule) ==
    <<"ufw", action>>
    \o (IF rule.protocol # "any" THEN <<rule.protocol>> ELSE <<>>)
    \o (IF rule.port # "" THEN <<rule.port>> ELSE <<>>)
    \o (IF rule.source # "" THEN <<"from", rule.source>> ELSE <<>>)

\* FirewallManager.add_firewall_rule, dockpanel.py:894-935 (ufw branch)
add_firewall_rule(rule, password) ==
    run_sudo_command(FwCmd(rule.action, rule), password)

\* FirewallManager.remove_firewall_rule, dockpanel.py:938-980 (ufw branch)
remove_firewall_rule(rule, password) ==
    run_sudo_command(FwCmd(IF rule.action = "allow" THEN "deny" ELSE "allow", rule),
                     password)

FwInit ==
    /\ SYSTEM \in Platforms
    /\ PACKAGE_MANAGER = detect_system(SYSTEM, {}, FALSE)
    /\ foxPM = fox_detect_package_manager(SYSTEM, {})
    /\ foxThreads = <<>>
    /\ foxIdleQ = <<>>
    /\ foxStatus = "Ready"
    /\ foxPkgDb = {}
    /\ foxInstalled = {}
    /\ foxClicks = 0
    /\ foxSwitch = FALSE
    /\ foxFwRules = <<>>
    /\ foxPkgAsked = "none"
    /\ fwBins \in FwInstalls
    /\ firewalld = NoFirewalld
    /\ ufw \in [active : BOOLEAN, rules : {<<>>}]
    /\ rules_liststore = <<>>
    /\ fwLast = NoFwCall
    /\ fwOps = 0
    /\ IdleExceptFw

\* a firewall handler of dockpanel has run a FirewallManager verb: the
\* spawned command acts on ufw, and on success the rules view is reloaded
FwSubmitted(op, rule, row, spawn, rc, rc2) ==
    LET run == RunWords(ufw, fwBins, LastWords(spawn), rc)
    IN  /\ ufw' = run.ufw
        /\ fwLast' = [op |-> op, rule |-> rule, row |-> row, spawn |-> spawn,
                      ok |-> (run.returncode = 0), seen |-> <<>>]
        /\ rules_liststore' =
              IF run.returncode = 0
              THEN load_firewall_rules(get_firewall_info(SYSTEM, fwBins, run.ufw, rc2))
              ELSE rules_liststore

\* on_add_firewall_rule, dockpanel.py:3290-3344
OnAddFirewallRule ==
    \E action \in {"allow", "deny"}, protocol \in FwProtocols \cup {"any"},
       port \in FwPorts, answer \in FwAnswers, rc \in {0, 1}, rc2 \in {0, 1} :
        /\ foxClicks + fwOps < MaxFwOps
        /\ fwOps' = fwOps + 1
        /\ IF answer = <<>>
           THEN UNCHANGED <<ufw, fwLast, rules_liststore>>
           ELSE LET rule == [backend |-> "ufw", action |-> action,
                             protocol |-> protocol, port |-> port, source |-> ""]
                IN  FwSubmitted("add", rule, <<>>, add_firewall_rule(rule, answer),
                                rc, rc2)
        /\ UNCHANGED <<fwBins, firewalld, sysVars, foxVars, exceptFw>>

\* on_remove_firewall_rule, dockpanel.py:3351-3372, for the selected row
OnRemoveFirewallRule ==
    \E n \in DOMAIN rules_liststore, answer \in FwAnswers,
       rc \in {0, 1}, rc2 \in {0, 1} :
        /\ foxClicks + fwOps < MaxFwOps
        /\ fwOps' = fwOps + 1
        /\ IF answer = <<>>
           THEN UNCHANGED <<ufw, fwLast, rules_liststore>>
           ELSE LET row == rules_liststore[n]
                    rule == [backend |-> "ufw", action |-> row[1],
                             protocol |-> row[3], port |-> row[4], source |-> ""]
                IN  FwSubmitted("remove", rule, row,
                                remove_firewall_rule(rule, answer), rc, rc2)
        /\ UNCHANGED <<fwBins, firewalld, sysVars, foxVars, exceptFw>>

\* on_refresh_clicked on the firewall page, dockpanel.py:3053-3076
OnRefreshFirewall ==
    \E rc \in {0, 1} :
        /\ foxClicks + fwOps < MaxFwOps
        /\ fwOps' = fwOps + 1
        /\ rules_liststore' =
              load_firewall_rules(get_firewall_info(SYSTEM, fwBins, ufw, rc))
        /\ fwLast' = [op |-> "load", rule |-> <<>>, row |-> <<>>, spawn |-> <<>>,
                      ok |-> (rc = 0), seen |-> ufw]
        /\ UNCHANGED <<ufwVars, sysVars, foxVars, exceptFw>>

FwNext ==
    \/ OnAddFirewallRule \/ OnRemoveFirewallRule \/ OnRefreshFirewall
    \/ FoxAddFirewallRule \/ FoxDeleteFirewallRule \/ FoxRefreshFirewall
    \/ FoxFirewallSwitched \/ FoxPopen \/ FoxExit \/ FoxCallback

SpecFirewall == FwInit /\ [][FwNext]_vars

(***************************************************************************)
(* Claims on firewall rules                                                *)
(***************************************************************************)
\* the rule of the claims: allow tcp port 22
IsAllowTcp22(rule) ==
    rule.action = "allow" /\ rule.protocol = "tcp" /\ rule.port = "22"

\* C7: adding the rule {allow, tcp, 22} on a ufw system issues exactly
\* `ufw allow 22/tcp` behind the privilege-elevation prefix, from
\* add_firewall_rule and from foxden's on_add_firewall_rule.
C7_AddIssuesPortSlashProtocol ==
    /\ ("ufw" \in fwBins /\ fwLast.op = "add" /\ IsAllowTcp22(fwLast.rule)) =>
           StripSudo(LastWords(fwLast.spawn)) = <<"ufw", "allow", "22/tcp">>
    /\ \A i \in DOMAIN foxThreads :
           ("ufw" \in fwBins /\ foxThreads[i].kind = "fw_add"
            /\ IsAllowTcp22(foxThreads[i].arg)) =>
               StripSudo(foxThreads[i].cmd) = <<"ufw", "allow", "22/tcp">>

\* C8: once allow 22/tcp has been added to an active ufw, the rules view
\* loaded from get_firewall_info holds a row with action ALLOW and
\* protocol tcp.
C8_ListingShowsAllowTcp ==
    (/\ fwLast.op = "load" /\ fwLast.ok /\ fwLast.seen = ufw
     /\ ufw.active
     /\ \E i \in DOMAIN ufw.rules :
            ufw.rules[i].to = "22/tcp" /\ ufw.rules[i].action = "ALLOW") =>
        \E n \in DOMAIN rules_liststore :
            rules_liststore[n][1] = "ALLOW" /\ rules_liststore[n][3] = "tcp"

\* C9: removing the rule a row of the rules view shows (`ufw status` prints
\* the port in the row's first column and the action in its second) issues
\* the ufw command add_firewall_rule would build for that port and protocol
\* with the opposite action.
C9_RemoveSubmitsInverse ==
    ("ufw" \in fwBins /\ fwLast.op = "remove") =>
        \A a \in {"allow", "deny"}, q \in FwProtocols \cup {"any"}, p \in FwPorts :
            (fwLast.row[1] = UfwPortSpec(p, q) /\ fwLast.row[2] = UfwActions[a]) =>
                StripSudo(LastWords(fwLast.spawn)) =
                    FwCmd(IF a = "allow" THEN "deny" ELSE "allow",
                          [protocol |-> q, port |-> p, source |-> ""])

(***************************************************************************)
(* dockpanel: LogManager and the log page                                  *)
(***************************************************************************)
\* log handler runs in one run of the program
MaxLogOps == 2

\* the branches of get_logs, dockpanel.py:992-1018
LogKinds == {"system", "kernel", "auth"}

\* the entries of the log type combo, dockpanel.py:2094-2096
LogComboTexts == {"System", "Kernel", "Authentication"}

\* str.lower() on the combo's texts
Lower(text) ==
    IF text = "System" THEN "system"
    ELSE IF text = "Kernel" THEN "kernel"
    ELSE IF text = "Authentication" THEN "authentication"
    ELSE text

\* what can exist: /usr/bin/journalctl, /var/log/syslog, /var/log/auth.log
LogPaths == {"journalctl", "syslog", "auth.log"}

\* where log lines are kept
LogSources == {"journal", "kernel", "syslog", "auth.log"}

\* stdout.split('\n'): the lines of a text; '' splits into ['']
SplitLines(text) == IF text = <<>> THEN <<"">> ELSE text

\* '\n'.join(logs)
JoinLines(logs) == IF logs = <<"">> THEN <<>> ELSE logs

\* LogManager.get_logs(log_type), dockpanel.py:987-1024, when every command
\* it runs exits 0
get_logs(log_type, files, store) ==
    IF log_type = "system"
    THEN IF "journalctl" \in files THEN SplitLines(store["journal"] \o store["kernel"])
         ELSE IF "syslog" \in files THEN SplitLines(store["syslog"])
         ELSE <<>>
    ELSE IF log_type = "kernel"
    THEN SplitLines(store["kernel"])
    ELSE IF log_type = "auth"
    THEN IF "auth.log" \in files THEN SplitLines(store["auth.log"]) ELSE <<>>
    ELSE <<>>

\* DockPanelWindow.load_logs, dockpanel.py:2831-2844
load_logs(combo, files, store) == JoinLines(get_logs(Lower(combo), files, store))

\* LogManager.clear_logs(log_type, password), dockpanel.py:1027-1044, with
\* exit code rc of the command it runs: what it returns (returned = FALSE is
\* Python's None, the function falling off its end), what it spawned and the
\* sources it left
clear_logs(log_type, password, files, store, rc) ==
    LET envelope(sp, msg, st) ==
            [returned |-> TRUE, success |-> (rc = 0),
             message |-> IF rc # 0 THEN "stderr" ELSE msg,
             spawns |-> <<sp>>, store |-> IF rc = 0 THEN st ELSE store]
    IN  IF log_type = "system"
        THEN IF "journalctl" \in files
             THEN envelope(run_sudo_command(<<"journalctl", "--vacuum-time=1s">>, password),
                           "stdout",
                           [store EXCEPT !["journal"] = <<>>, !["kernel"] = <<>>])
             ELSE envelope(run_sudo_command(<<">", "/var/log/syslog">>, password),
                           "Logs cleared", [store EXCEPT !["syslog"] = <<>>])
        ELSE IF log_type = "kernel"
        THEN envelope(run_sudo_command(<<"dmesg", "-c">>, password),
                      "Kernel logs cleared", [store EXCEPT !["kernel"] = <<>>])
        ELSE [returned |-> FALSE, success |-> FALSE, message |-> "",
              spawns |-> <<>>, store |-> store]

LogInit ==
    /\ SysInit
    /\ logFiles \in SUBSET LogPaths
    /\ logStore \in [LogSources -> {<<>>, <<"line">>}]
    /\ \A s \in {"syslog", "auth.log"} : s \notin logFiles => logStore[s] = <<>>
    /\ log_type_combo = "System"
    /\ logs_textview = load_logs("System", logFiles, logStore)
    /\ logLast = NoLogCall
    /\ logOps = 0
    /\ IdleExceptLog

LogStep ==
    /\ logOps < MaxLogOps
    /\ logOps' = logOps + 1
    /\ UNCHANGED <<sysVars, exceptLog, logFiles>>

\* on_log_type_changed, dockpanel.py:3375-3377
OnLogTypeChanged ==
    \E text \in LogComboTexts \ {log_type_combo} :
        /\ LogStep
        /\ log_type_combo' = text
        /\ logs_textview' = load_logs(text, logFiles, logStore)
        /\ UNCHANGED <<logStore, logLast>>

\* the record of a clear_logs call that returned r to a caller unpacking
\* `success, message = ...`: unpacking None raises TypeError
LogCalled(op, log_type, r) ==
    [op |-> op, log_type |-> log_type, returned |-> r.returned,
     success |-> r.success, message |-> r.message,
     raised |-> IF r.returned THEN "" ELSE "TypeError", spawns |-> r.spawns]

\* on_clear_logs, dockpanel.py:3383-3407: the question dialog, the password
\* dialog, clear_logs, and load_logs on success
OnClearLogs ==
    \E yes \in BOOLEAN, answer \in Passwords \cup {<<>>}, rc \in {0, 1} :
        /\ LogStep
        /\ IF yes /\ answer # <<>>
           THEN LET r == clear_logs(Lower(log_type_combo), answer, logFiles,
                                    logStore, rc)
                IN  /\ logStore' = r.store
                    /\ logLast' = LogCalled("on_clear_logs", Lower(log_type_combo), r)
                    /\ logs_textview' =
                           IF r.returned /\ r.success
                           THEN load_logs(log_type_combo, logFiles, r.store)
                           ELSE logs_textview
           ELSE UNCHANGED <<logStore, logLast, logs_textview>>
        /\ UNCHANGED log_type_combo

\* LogManager.clear_logs called with a log kind of get_logs
ClearLogs ==
    \E log_type \in LogKinds, password \in Passwords, rc \in {0, 1} :
        LET r == clear_logs(log_type, password, logFiles, logStore, rc)
        IN  /\ LogStep
            /\ logStore' = r.store
            /\ logLast' = LogCalled("clear_logs", log_type, r)
            /\ UNCHANGED <<log_type_combo, logs_textview>>

LogNext == OnLogTypeChanged \/ OnClearLogs \/ ClearLogs

SpecLog == LogInit /\ [][LogNext]_vars

\* C11: every mutating verb returns a (success, message) envelope for
\* every input; a failure carries a populated message; clear_logs returns
\* an envelope for each log kind get_logs accepts (system, kernel, auth).
C11_ClearLogsReturnsEnvelope ==
    (logLast.op # "none" /\ logLast.log_type \in LogKinds) =>
        /\ logLast.returned
        /\ ~logLast.success => logLast.message # ""

\* C12: a missing package backend is a normal state that surfaces as a
\* failure only when an operation is requested.  With no package manager
\* detected, listing the packages starts no external command and reports no
\* error, and an install request starts no external command and reports
\* "Unsupported package manager".
C12_MissingBackendFailsOnlyOperations ==
    foxPM = "unknown" =>
        /\ foxThreads = <<>>
        /\ foxPkgAsked = "refresh_packages" =>
               foxStatus # "Unsupported package manager"
        /\ foxPkgAsked = "on_install_package" =>
               foxStatus = "Unsupported package manager"

(***************************************************************************)
(* dockpanel: the repositories page and the services page                  *)
(***************************************************************************)
\* repository / service handler runs in one run of the program
MaxPanelOps == 2

\* the service units `systemctl list-units --type=service --all` prints
UnitNames == <<"ssh.service">>

Units == Range(UnitNames)

\* SystemServiceManager.get_all_services, dockpanel.py:682-719: one entry
\* for every unit listed, its 'enabled' from `systemctl is-enabled`;
\* load_services, 2964-2976, makes a row of each
load_services(enabled) ==
    [n \in DOMAIN UnitNames |->
        <<UnitNames[n], "loaded", "active", "running", enabled[UnitNames[n]]>>]

\* enable_service / disable_service, dockpanel.py:766-786: systemctl
\* enable|disable <name> under sudo, exit code rc
enable_service(enabled, service_name, rc) ==
    [units |-> IF rc = 0 THEN [enabled EXCEPT ![service_name] = TRUE] ELSE enabled,
     ok |-> (rc = 0)]

disable_service(enabled, service_name, rc) ==
    [units |-> IF rc = 0 THEN [enabled EXCEPT ![service_name] = FALSE] ELSE enabled,
     ok |-> (rc = 0)]

\* load_repositories, dockpanel.py:2788-2799: the view is cleared and gets a
\* row (enabled, name, url, type) for every entry of get_repositories
load_repositories(pm, files, db, conf) ==
    LET repos == get_repositories(pm, files, db, conf)
    IN  [n \in DOMAIN repos |->
            <<repos[n].enabled, repos[n].name, "", repos[n].type>>]

\* refresh_repositories, dockpanel.py:447-469: apt update, dnf makecache,
\* zypper refresh or pacman -Sy under sudo, exit code rc
refresh_repositories(pm, rc) ==
    IF pm \in {"apt", "dnf", "zypper", "pacman"}
    THEN [ok |-> (rc = 0), msg |-> IF rc = 0 THEN "stdout" ELSE "stderr"]
    ELSE [ok |-> FALSE, msg |-> "Unsupported package manager"]

\* a handler that shows the new position before the operation has answered
ToggleOptimistic(rows, path, col, enabled, success) ==
    [rows EXCEPT ![path][col] = ~enabled]

\* toggle_with_password of on_repo_toggled and on_service_enabled_toggled,
\* dockpanel.py:3164-3172, 3726-3738: column col of the row becomes
\* `not enabled` on success and is set back to `enabled` otherwise
toggle_with_password(rows, path, col, enabled, success) ==
    [rows EXCEPT ![path][col] = IF success THEN ~enabled ELSE enabled]

\* how a handler run can go: the password dialog is cancelled (or left
\* empty) and nothing runs, or the manager's verb runs, a file write of it
\* ending in outcome and its last command with exit code rc
ServiceRuns ==
    {[ran |-> FALSE, outcome |-> "denied", rc |-> 1],
     [ran |-> TRUE, outcome |-> "written", rc |-> 0],
     [ran |-> TRUE, outcome |-> "written", rc |-> 1]}

PanelRuns ==
    ServiceRuns \cup
    (IF PACKAGE_MANAGER \in {"apt", "pacman"}
     THEN {[ran |-> TRUE, outcome |-> o, rc |-> 1] : o \in {"denied", "truncated"}}
     ELSE {})

PanelInit ==
    /\ SysInit
    /\ aptFiles \in (IF PACKAGE_MANAGER = "apt" THEN AptConfigs ELSE {<<>>})
    /\ repoDb \in (IF PACKAGE_MANAGER \in {"dnf", "zypper"} THEN RepoDbs ELSE {<<>>})
    /\ pacConf \in (IF PACKAGE_MANAGER = "pacman" THEN PacConfs ELSE {<<>>})
    /\ repoLast = NoRepoCall
    /\ repoPrev = NoRepoCall
    /\ repoOps = 0
    /\ unitEnabled \in [Units -> BOOLEAN]
    /\ repo_liststore = load_repositories(PACKAGE_MANAGER, aptFiles, repoDb, pacConf)
    /\ service_liststore = load_services(unitEnabled)
    /\ panelLast = NoPanelRun
    /\ panelOps = 0
    /\ IdleExceptPanel

\* a handler of the repositories page has run: r is what the manager's verb
\* returned (the stores unchanged and ran = FALSE when the password dialog
\* was cancelled), rows the view it left
RepoHandled(op, path, ran, r, rows) ==
    /\ panelOps < MaxPanelOps
    /\ panelOps' = panelOps + 1
    /\ aptFiles' = r.files
    /\ repoDb' = r.db
    /\ pacConf' = r.conf
    /\ repo_liststore' = rows
    /\ panelLast' = [op |-> op, path |-> path, ran |-> ran, ok |-> ran /\ r.ok,
                     before |-> repo_liststore]
    /\ UNCHANGED <<sysVars, exceptPanel, repoLast, repoPrev, repoOps, unitEnabled,
                   service_liststore>>

Untouched == RepoResult(aptFiles, repoDb, pacConf, FALSE, "")

\* on_repo_toggled(path), dockpanel.py:3156-3174
OnRepoToggled ==
    \E path \in DOMAIN repo_liststore, run \in PanelRuns :
        LET repo_name == repo_liststore[path][2]
            enabled == repo_liststore[path][1]
            r == toggle_repository(PACKAGE_MANAGER, repo_name, ~enabled,
                                   aptFiles, repoDb, pacConf, run.outcome, run.rc)
        IN  IF ~run.ran
            THEN RepoHandled("on_repo_toggled", path, FALSE, Untouched, repo_liststore)
            ELSE RepoHandled("on_repo_toggled", path, TRUE, r,
                             toggle_with_password(repo_liststore, path, 1, enabled, r.ok))

\* on_enable_repository / on_disable_repository for the selected row,
\* dockpanel.py:3176-3208
RepoSwitched(op, enable) ==
    \E path \in DOMAIN repo_liststore, run \in PanelRuns :
        LET repo_name == repo_liststore[path][2]
            r == toggle_repository(PACKAGE_MANAGER, repo_name, enable,
                                   aptFiles, repoDb, pacConf, run.outcome, run.rc)
        IN  IF ~run.ran
            THEN RepoHandled(op, path, FALSE, Untouched, repo_liststore)
            ELSE RepoHandled(op, path, TRUE, r,
                             IF r.ok THEN [repo_liststore EXCEPT ![path][1] = enable]
                             ELSE repo_liststore)

OnEnableRepository == RepoSwitched("on_enable_repository", TRUE)

OnDisableRepository == RepoSwitched("on_disable_repository", FALSE)

\* on_remove_repository for the selected row, dockpanel.py:3210-3237; the
\* question dialog answered No is a run in which nothing ran
OnRemoveRepository ==
    \E path \in DOMAIN repo_liststore, run \in PanelRuns :
        LET r == remove_repository(PACKAGE_MANAGER, repo_liststore[path][2],
                                   aptFiles, repoDb, pacConf, run.outcome, run.rc)
        IN  IF ~run.ran
            THEN RepoHandled("on_remove_repository", path, FALSE, Untouched,
                             repo_liststore)
            ELSE RepoHandled("on_remove_repository", path, TRUE, r,
                             IF r.ok
                             THEN load_repositories(PACKAGE_MANAGER, r.files, r.db, r.conf)
                             ELSE repo_liststore)

\* on_add_repository, dockpanel.py:3094-3130
OnAddRepository ==
    \E url \in RepoUrls, name \in {"", "extra"}, run \in PanelRuns :
        LET r == add_repository(PACKAGE_MANAGER, url, name, aptFiles, repoDb,
                                pacConf, run.outcome, run.rc, panelOps)
        IN  IF ~run.ran
            THEN RepoHandled("on_add_repository", 0, FALSE, Untouched, repo_liststore)
            ELSE RepoHandled("on_add_repository", 0, TRUE, r,
                             IF r.ok
                             THEN load_repositories(PACKAGE_MANAGER, r.files, r.db, r.conf)
                             ELSE repo_liststore)

\* on_refresh_repositories, dockpanel.py:3132-3142
OnRefreshRepositories ==
    \E run \in PanelRuns :
        LET f == refresh_repositories(PACKAGE_MANAGER, run.rc)
            r == RepoResult(aptFiles, repoDb, pacConf, f.ok, f.msg)
        IN  IF ~run.ran
            THEN RepoHandled("on_refresh_repositories", 0, FALSE, Untouched,
                             repo_liststore)
            ELSE RepoHandled("on_refresh_repositories", 0, TRUE, r,
                             IF r.ok
                             THEN load_repositories(PACKAGE_MANAGER, aptFiles, repoDb,
                                                    pacConf)
                             ELSE repo_liststore)

\* a handler of the services page has run
ServiceHandled(op, path, ran, r, rows) ==
    /\ panelOps < MaxPanelOps
    /\ panelOps' = panelOps + 1
    /\ unitEnabled' = r.units
    /\ service_liststore' = rows
    /\ panelLast' = [op |-> op, path |-> path, ran |-> ran, ok |-> ran /\ r.ok,
                     before |-> service_liststore]
    /\ UNCHANGED <<sysVars, exceptPanel, repoVars, repo_liststore>>

\* on_service_enabled_toggled(path), dockpanel.py:3718-3740
OnServiceEnabledToggled ==
    \E path \in DOMAIN service_liststore, run \in ServiceRuns :
        LET service_name == service_liststore[path][1]
            enabled == service_liststore[path][5]
            r == IF enabled THEN disable_service(unitEnabled, service_name, run.rc)
                 ELSE enable_service(unitEnabled, service_name, run.rc)
        IN  IF ~run.ran
            THEN ServiceHandled("on_service_enabled_toggled", path, FALSE,
                                [units |-> unitEnabled, ok |-> FALSE],
                                service_liststore)
            ELSE ServiceHandled("on_service_enabled_toggled", path, TRUE, r,
                                toggle_with_password(service_liststore, path, 5,
                                                     enabled, r.ok))

\* on_service_enable / on_service_disable for the selected row,
\* dockpanel.py:3793-3825: the view is loaded again on success
ServiceSwitched(op, enable) ==
    \E path \in DOMAIN service_liststore, run \in ServiceRuns :
        LET service_name == service_liststore[path][1]
            r == IF enable THEN enable_service(unitEnabled, service_name, run.rc)
                 ELSE disable_service(unitEnabled, service_name, run.rc)
        IN  IF ~run.ran
            THEN ServiceHandled(op, path, FALSE, [units |-> unitEnabled, ok |-> FALSE],
                                service_liststore)
            ELSE ServiceHandled(op, path, TRUE, r,
                                IF r.ok THEN load_services(r.units)
                                ELSE service_liststore)

OnServiceEnable == ServiceSwitched("on_service_enable", TRUE)

OnServiceDisable == ServiceSwitched("on_service_disable", FALSE)

PanelNext ==
    \/ OnRepoToggled \/ OnEnableRepository \/ OnDisableRepository
    \/ OnRemoveRepository \/ OnAddRepository \/ OnRefreshRepositories
    \/ OnServiceEnabledToggled \/ OnServiceEnable \/ OnServiceDisable

SpecPanel == PanelInit /\ [][PanelNext]_vars

\* the handlers that switch the enabled flag of one displayed row
RepoToggles == {"on_repo_toggled", "on_enable_repository", "on_disable_repository"}
ServiceToggles == {"on_service_enabled_toggled"}

\* C13: for the repository and service enable/disable toggles, the enabled
\* flag of the displayed record changes only after the operation reported
\* success; when it failed, or the password dialog was cancelled and no
\* operation ran, the flag keeps the value it had.
C13_FlagChangesOnlyOnSuccess ==
    /\ panelLast.op \in RepoToggles =>
           (repo_liststore[panelLast.path][1] # panelLast.before[panelLast.path][1]
               => panelLast.ran /\ panelLast.ok)
    /\ panelLast.op \in ServiceToggles =>
           (service_liststore[panelLast.path][5] # panelLast.before[panelLast.path][5]
               => panelLast.ran /\ panelLast.ok)

\* a toggle of an enabled repository's row ran and the manager reported
\* failure
C13_Witness ==
    /\ panelLast.op = "on_repo_toggled"
    /\ panelLast.ran /\ ~panelLast.ok
    /\ panelLast.before[panelLast.path][1]

\* C14: repository state is never client-side only: after a successful
\* add, remove or toggle, the enabled flag displayed for a repository equals
\* the flag get_repositories reports for it at that moment (the displayed
\* repositories having different names).
C14_DisplayedFlagIsListed ==
    (/\ panelLast.op \in RepoToggles \cup {"on_add_repository", "on_remove_repository"}
     /\ panelLast.ok
     /\ \A i, j \in DOMAIN repo_liststore :
            i # j => repo_liststore[i][2] # repo_liststore[j][2]) =>
        LET repos == get_repositories(PACKAGE_MANAGER, aptFiles, repoDb, pacConf)
        IN  \A n \in DOMAIN repo_liststore, k \in DOMAIN repos :
                repos[k].name = repo_liststore[n][2] =>
                    repos[k].enabled = repo_liststore[n][1]

(***************************************************************************)
(* The execution gateways at run time: subprocess.run with a timeout in    *)
(* dockpanel, Popen and communicate() in a thread in foxden                *)
(***************************************************************************)
\* invocations in one run
MaxGwCalls == 2

\* foxden's run_command(command), foxden.py:263-289: Popen(shell=True) and
\* communicate() without a timeout (timeout 0 is Python's None)
fox_popen(cmd) == [run_command(cmd) EXCEPT !.timeout = 0]

\* a listing and an install as each program's gateway is given them:
\* dockpanel.py:1093, 1127-1135; foxden.py:1228, 2185
GwCommands(program) ==
    IF program = "dockpanel"
    THEN { run_command(<<"dpkg", "-l">>),
           run_sudo_command(<<"apt", "install", "-y", "vim">>, <<"hunter2">>) }
    ELSE { fox_popen(<<"dpkg", "-l">>),
           fox_popen(<<"sudo", "apt", "install", "-y", "vim">>) }

\* what a process that has exited leaves: its exit code and its stderr
ExitResults ==
    {[stdout |-> "stdout", stderr |-> "", returncode |-> 0],
     [stdout |-> "", stderr |-> "E: Unable to locate package", returncode |-> 100],
     [stdout |-> "", stderr |-> "sudo: 1 incorrect password attempt", returncode |-> 1]}

\* `except subprocess.TimeoutExpired`, dockpanel.py:88-89
TimeoutResult == [stdout |-> "", stderr |-> "Command timed out", returncode |-> 1]

NotReturned == [stdout |-> "", stderr |-> "", returncode |-> -1]

GwInit ==
    /\ SysInit
    /\ gwProgram \in {"dockpanel", "foxden"}
    /\ gwCalls = <<>>
    /\ IdleExceptGw

\* the gateway is called: the shell is spawned.  subprocess.run blocks the
\* caller, so dockpanel has one invocation at a time; foxden starts a thread
\* for each.  Whether the command would ever exit is the environment's.
GwRun ==
    \E spawn \in GwCommands(gwProgram), exits \in BOOLEAN :
        /\ Len(gwCalls) < MaxGwCalls
        /\ gwProgram = "dockpanel" =>
               \A i \in DOMAIN gwCalls : gwCalls[i].st = "returned"
        /\ gwCalls' = Append(gwCalls,
               [spawn |-> spawn, exits |-> exits, st |-> "running",
                shell |-> "alive", command |-> "alive", timed_out |-> FALSE,
                result |-> NotReturned])
        /\ UNCHANGED <<sysVars, exceptGw, gwProgram>>

\* the command exits before any timeout: the result is returned to the
\* caller (dockpanel.py:87) or queued for the callback (foxden.py:273-280)
GwExit ==
    \E i \in DOMAIN gwCalls, result \in ExitResults :
        /\ gwCalls[i].st = "running"
        /\ gwCalls[i].exits
        /\ gwCalls' = [gwCalls EXCEPT ![i].st = "returned", ![i].shell = "exited",
                                      ![i].command = "exited", ![i].result = result]
        /\ UNCHANGED <<sysVars, exceptGw, gwProgram>>

\* the timeout of subprocess.run expires: it kills the process it spawned,
\* the shell, waits for it and raises TimeoutExpired, which run_command
\* turns into its result (dockpanel.py:88-89).  The command is the killed
\* process itself only where the shell has replaced itself by it, which a
\* shell may do for a single simple command and cannot do for a pipeline or
\* a list.
GwTimeout ==
    \E i \in DOMAIN gwCalls, execd \in BOOLEAN :
        /\ gwCalls[i].st = "running"
        /\ gwCalls[i].spawn.timeout > 0
        /\ execd => Len(gwCalls[i].spawn.argvs) = 1
        /\ gwCalls' = [gwCalls EXCEPT ![i].st = "returned", ![i].shell = "killed",
                                      ![i].command = IF execd THEN "killed" ELSE "alive",
                                      ![i].timed_out = TRUE,
                                      ![i].result = TimeoutResult]
        /\ UNCHANGED <<sysVars, exceptGw, gwProgram>>

\* a command left behind by a killed shell exits by itself
GwOrphanExit ==
    \E i \in DOMAIN gwCalls :
        /\ gwCalls[i].st = "returned"
        /\ gwCalls[i].command = "alive"
        /\ gwCalls[i].exits
        /\ gwCalls' = [gwCalls EXCEPT ![i].command = "exited"]
        /\ UNCHANGED <<sysVars, exceptGw, gwProgram>>

GwNext == GwRun \/ GwExit \/ GwTimeout \/ GwOrphanExit

SpecGateway == GwInit /\ [][GwNext]_vars

\* time passes and a process that exits does exit: an expired timeout is
\* acted on, an exit is noticed
SpecGatewayFair ==
    SpecGateway /\ WF_vars(GwExit) /\ WF_vars(GwTimeout) /\ WF_vars(GwOrphanExit)

\* C15: when a command exceeds its timeout, the underlying process is
\* terminated and the result reports the timeout as such, so that it differs
\* from every result of a command that failed with a non-zero exit code.
C15_TimeoutKillsAndIsReported ==
    \A i \in DOMAIN gwCalls :
        gwCalls[i].timed_out =>
            /\ gwCalls[i].st = "returned"
            /\ gwCalls[i].shell # "alive"
            /\ gwCalls[i].command # "alive"
            /\ gwCalls[i].result \notin ExitResults

\* C16: every invocation is bounded by a timeout, so every invocation
\* eventually returns a result to its caller or callback, even if the
\* external process never exits.
C16_EveryInvocationReturns ==
    \A i \in 1..MaxGwCalls :
        (i \in DOMAIN gwCalls) ~> (i \in DOMAIN gwCalls /\ gwCalls[i].st = "returned")

(***************************************************************************)
(* User deletion: dockpanel's UserManager.delete_user and foxden's         *)
(* on_delete_user                                                          *)
(***************************************************************************)
\* user handler runs in one run
MaxUserOps == 2

\* the accounts a system starts with, in the order of /etc/passwd
PasswdFiles ==
    { << [name |-> "root", uid |-> 0], [name |-> "alice", uid |-> 1000] >>,
      << [name |-> "root", uid |-> 0], [name |-> "daemon", uid |-> 1],
         [name |-> "alice", uid |-> 1000] >> }

\* UserManager.get_users, dockpanel.py:1226-1243, as load_users shows it
get_users(pw) ==
    LET shown == SelectSeq(pw, LAMBDA u : u.uid >= 1000 \/ u.name \in {"root", "nobody"})
    IN  [n \in DOMAIN shown |-> shown[n].name]

\* the callback of foxden's refresh_users, foxden.py:854-873: parts[0] of
\* every line of `cat /etc/passwd`
fox_users(pw) == [n \in DOMAIN pw |-> pw[n].name]

\* UserManager.delete_user(username), dockpanel.py:1345-1356: the command
\* it runs, if any ("" is the empty string; remove_home is True)
delete_user(username) ==
    IF username = "" \/ username = "root"
    THEN [spawns |-> <<>>, refused |-> TRUE, msg |-> "Cannot delete root user"]
    ELSE [spawns |-> <<run_sudo_command(<<"userdel", "-r", username>>, <<>>)>>,
          refused |-> FALSE, msg |-> "User deleted successfully"]

\* userdel: the exit codes it can give; root owns running processes, which
\* userdel refuses (8)
UserdelCodes(name) == IF name = "root" THEN {8} ELSE {0, 6}

\* /etc/passwd after `userdel -r name` has exited with rc
Userdel(pw, name, rc) ==
    IF rc = 0 THEN SelectSeq(pw, LAMBDA u : u.name # name) ELSE pw

UserInit ==
    /\ SysInit
    /\ passwd \in PasswdFiles
    /\ user_liststore = get_users(passwd)
    /\ foxUsers = fox_users(passwd)
    /\ userThreads = <<>>
    /\ userIdleQ = <<>>
    /\ userSpawned = <<>>
    /\ userOps = 0
    /\ IdleExceptUser

UserStep ==
    /\ userOps < MaxUserOps
    /\ userOps' = userOps + 1
    /\ UNCHANGED <<sysVars, exceptUser>>

\* delete_user(username) has been called: what it ran, with exit code rc
UserDeleted(by, username, rc) ==
    LET r == delete_user(username)
        ran == r.spawns # <<>>
    IN  /\ passwd' = IF ran THEN Userdel(passwd, username, rc) ELSE passwd
        /\ userSpawned' = IF ran
                          THEN Append(userSpawned,
                                      [by |-> by, username |-> username,
                                       words |-> r.spawns[1].cmd])
                          ELSE userSpawned
        /\ user_liststore' = IF by = "dockpanel.on_delete_user" /\ ran /\ rc = 0
                             THEN get_users(Userdel(passwd, username, rc))
                             ELSE user_liststore
        /\ UNCHANGED <<foxUsers, userThreads, userIdleQ>>

\* dockpanel's on_delete_user for the selected row, dockpanel.py:3671-3699,
\* answered Yes and given a password
DockOnDeleteUser ==
    \E n \in DOMAIN user_liststore :
        \E rc \in UserdelCodes(user_liststore[n]) :
            /\ UserStep
            /\ UserDeleted("dockpanel.on_delete_user", user_liststore[n], rc)

\* UserManager.delete_user called with a user name
DeleteUser ==
    \E username \in {"", "root", "alice"} :
        \E rc \in UserdelCodes(username) :
            /\ UserStep
            /\ UserDeleted("delete_user", username, rc)

\* foxden's on_delete_user(user) answered Yes, foxden.py:1767-1803, from the
\* Delete button every row of the users list has (911)
FoxOnDeleteUser ==
    \E n \in DOMAIN foxUsers :
        /\ UserStep
        /\ userThreads' = Append(userThreads,
               [kind |-> "userdel", arg |-> foxUsers[n],
                cmd |-> <<"sudo", "userdel", "-r", foxUsers[n]>>])
        /\ UNCHANGED <<passwd, user_liststore, foxUsers, userIdleQ, userSpawned>>

\* thread_func of run_command, foxden.py:264-284: the command is executed
\* and its result queued for the callback
FoxUserThread ==
    \E i \in DOMAIN userThreads :
        LET t == userThreads[i]
        IN  \E rc \in (IF t.kind = "userdel" THEN UserdelCodes(t.arg) ELSE {0}) :
                /\ userThreads' = RemoveAt(userThreads, i)
                /\ passwd' = IF t.kind = "userdel" THEN Userdel(passwd, t.arg, rc)
                             ELSE passwd
                /\ userSpawned' = IF t.kind = "userdel"
                                  THEN Append(userSpawned,
                                              [by |-> "foxden.on_delete_user",
                                               username |-> t.arg, words |-> t.cmd])
                                  ELSE userSpawned
                /\ userIdleQ' = Append(userIdleQ,
                       [kind |-> t.kind, returncode |-> rc,
                        stdout |-> IF t.kind = "userdel" THEN <<>> ELSE passwd])
                /\ UNCHANGED <<sysVars, exceptUser, user_liststore, foxUsers, userOps>>

\* the callbacks of on_delete_user (foxden.py:1786-1793: refresh_users on
\* success) and of refresh_users (854-876)
FoxUserCallback ==
    /\ userIdleQ # <<>>
    /\ LET r == Head(userIdleQ)
       IN  /\ userIdleQ' = Tail(userIdleQ)
           /\ IF r.kind = "userdel"
              THEN /\ userThreads' =
                          IF r.returncode = 0
                          THEN Append(userThreads,
                                      [kind |-> "passwd", arg |-> "",
                                       cmd |-> <<"cat", "/etc/passwd">>])
                          ELSE userThreads
                   /\ UNCHANGED foxUsers
              ELSE /\ foxUsers' = fox_users(r.stdout)
                   /\ UNCHANGED userThreads
    /\ UNCHANGED <<sysVars, exceptUser, passwd, user_liststore, userSpawned, userOps>>

UserNext ==
    DockOnDeleteUser \/ DeleteUser \/ FoxOnDeleteUser \/ FoxUserThread
    \/ FoxUserCallback

SpecUser == UserInit /\ [][UserNext]_vars

\* C17: deleting the root user is refused: for the user name 'root', and
\* for an empty user name, no userdel command is executed, on any
\* user-deletion path of either program.
C17_RootIsNeverDeleted ==
    \A i \in DOMAIN userSpawned :
        /\ userSpawned[i].username \notin {"root", ""}
        /\ StripSudo(userSpawned[i].words) # <<"userdel", "-r", "root">>

(***************************************************************************)
(* The parsers of command output: get_service_status, get_boot_config,     *)
(* _parse_upgradable_list, _parse_installed_list, _parse_package_list      *)
(*                                                                         *)
(* A line is a sequence of tokens: a word is one token, and so is each     *)
(* digit, blank and punctuation mark the parsers look at.                  *)
(***************************************************************************)
\* lines in a parsed text
MaxParseLines == 3

\* stdout.split('\n'): the lines of a text; '' splits into ['']
TextLines(text) == IF text = <<>> THEN << <<>> >> ELSE text

\* the index of the first sep in line, 0 if there is none
RECURSIVE IndexOf(_, _, _)
IndexOf(line, sep, n) ==
    IF n > Len(line) THEN 0
    ELSE IF line[n] = sep THEN n
    ELSE IndexOf(line, sep, n + 1)

\* line.split(sep, 1)
SplitOnce(line, sep) ==
    LET i == IndexOf(line, sep, 1)
    IN  IF i = 0 THEN <<line>>
        ELSE <<SubSeq(line, 1, i - 1), SubSeq(line, i + 1, Len(line))>>

\* line.split(sep)
RECURSIVE Split(_, _)
Split(line, sep) ==
    LET i == IndexOf(line, sep, 1)
    IN  IF i = 0 THEN <<line>>
        ELSE <<SubSeq(line, 1, i - 1)>> \o Split(SubSeq(line, i + 1, Len(line)), sep)

\* line.lstrip(), line.rstrip(), line.strip()
RECURSIVE LStrip(_)
LStrip(line) ==
    IF line # <<>> /\ Head(line) = " " THEN LStrip(Tail(line)) ELSE line

RECURSIVE RStrip(_)
RStrip(line) ==
    IF line # <<>> /\ line[Len(line)] = " "
    THEN RStrip(SubSeq(line, 1, Len(line) - 1))
    ELSE line

Strip(line) == LStrip(RStrip(line))

\* line.split(): the runs of non-blank tokens
Fields(line) == SelectSeq(Split(line, " "), LAMBDA w : w # <<>>)

\* ' '.join(words)
RECURSIVE Join(_)
Join(words) ==
    IF words = <<>> THEN <<>>
    ELSE IF Len(words) = 1 THEN words[1]
    ELSE words[1] \o <<" ">> \o Join(Tail(words))

\* stdout.strip() of run_command, dockpanel.py:87, on a text of lines: the
\* blank lines at both ends go, and the blanks around what is left
RECURSIVE StripText(_)
StripText(text) ==
    IF text = <<>> THEN text
    ELSE IF Strip(Head(text)) = <<>> THEN StripText(Tail(text))
    ELSE IF Strip(text[Len(text)]) = <<>> THEN StripText(SubSeq(text, 1, Len(text) - 1))
    ELSE IF Len(text) = 1 THEN <<Strip(text[1])>>
    ELSE <<LStrip(Head(text))>> \o SubSeq(text, 2, Len(text) - 1)
         \o <<RStrip(text[Len(text)])>>

DigitValue ==
    [d \in {"0", "1", "2", "3", "4", "5", "6", "7", "8", "9"} |->
        CASE d = "0" -> 0 [] d = "1" -> 1 [] d = "2" -> 2 [] d = "3" -> 3
          [] d = "4" -> 4 [] d = "5" -> 5 [] d = "6" -> 6 [] d = "7" -> 7
          [] d = "8" -> 8 [] d = "9" -> 9]

IsDigits(s) == s # <<>> /\ \A i \in DOMAIN s : s[i] \in DOMAIN DigitValue

\* the number a run of decimal digits writes
RECURSIVE Decimal(_)
Decimal(digits) ==
    IF digits = <<>> THEN 0
    ELSE Decimal(SubSeq(digits, 1, Len(digits) - 1)) * 10
         + DigitValue[digits[Len(digits)]]

\* Python's int(value): blanks around the number are ignored, a sign may
\* lead it; anything else raises ValueError
int(value) ==
    LET v == Strip(value)
        signed == v # <<>> /\ v[1] \in {"-", "+"}
        digits == IF signed THEN Tail(v) ELSE v
    IN  IF IsDigits(digits)
        THEN [raises |-> FALSE,
              n |-> IF signed /\ v[1] = "-" THEN 0 - Decimal(digits) ELSE Decimal(digits)]
        ELSE [raises |-> TRUE, n |-> 0]

NotSet == <<"[", "not", " ", "set", "]">>

\* a conversion to kilobytes: one division only
MemoryKB(n) == n \div 1024

\* int(value) // 1024 // 1024, dockpanel.py:755
MemoryMB(n) == (n \div 1024) \div 1024

\* what one `key=value` line does to the status dict, dockpanel.py:742-758
StatusLine(st, key, value) ==
    CASE key = <<"LoadState">> ->
             [raises |-> FALSE,
              status |-> [st EXCEPT !.loaded = (value # <<"not-found">>)]]
      [] key = <<"ActiveState">> ->
             [raises |-> FALSE, status |-> [st EXCEPT !.active = (value = <<"active">>)]]
      [] key = <<"UnitFileState">> ->
             [raises |-> FALSE, status |-> [st EXCEPT !.enabled = (value = <<"enabled">>)]]
      [] key = <<"Description">> ->
             [raises |-> FALSE, status |-> [st EXCEPT !.description = value]]
      [] key = <<"MainPID">> ->
             [raises |-> int(value).raises,
              status |-> [st EXCEPT !.main_pid = int(value).n]]
      [] key = <<"MemoryCurrent">> ->
             IF value # NotSet
             THEN [raises |-> int(value).raises,
                   status |-> [st EXCEPT !.memory = MemoryMB(int(value).n)]]
             ELSE [raises |-> FALSE, status |-> st]
      [] key = <<"TasksCurrent">> ->
             IF value # NotSet
             THEN [raises |-> int(value).raises,
                   status |-> [st EXCEPT !.tasks = int(value).n]]
             ELSE [raises |-> FALSE, status |-> st]
      [] OTHER -> [raises |-> FALSE, status |-> st]

\* the loop over stdout.split('\n'), dockpanel.py:740-758: an exception
\* leaves it for the except clause of 760
RECURSIVE StatusLoop(_, _, _)
StatusLoop(lines, n, st) ==
    IF n > Len(lines) THEN [raised |-> FALSE, status |-> st]
    ELSE IF IndexOf(lines[n], "=", 1) = 0 THEN StatusLoop(lines, n + 1, st)
    ELSE LET kv == SplitOnce(lines[n], "=")
             r == StatusLine(st, kv[1], kv[2])
         IN  IF r.raises THEN [raised |-> TRUE, status |-> st]
             ELSE StatusLoop(lines, n + 1, r.status)

\* SystemServiceManager.get_service_status, dockpanel.py:722-763: exists is
\* os.path.exists("/usr/bin/systemctl"), stdout and code what run_command
\* returned for `systemctl show`
get_service_status(exists, stdout, code) ==
    IF exists /\ code = 0 THEN StatusLoop(TextLines(stdout), 1, NoStatus)
    ELSE [raised |-> FALSE, status |-> NoStatus]

\* lines of `systemctl show` output, and lines it never prints
ShowLines ==
    { <<"ActiveState", "=", "active">>,
      <<"MainPID", "=", "8", "1", "2">>,
      <<"MainPID", "=", "n/a">>,
      <<"MemoryCurrent", "=", "1", "0", "4", "8", "5", "7", "6", "0", "0">>,
      <<"MemoryCurrent", "=", "3", "1", "4", "5", "7", "2", "7">>,
      <<"MemoryCurrent", "=", "[", "not", " ", "set", "]">>,
      <<"TasksCurrent", "=", "7">>,
      <<"TasksCurrent", "=", "infinity">>,
      <<"Warning:", " ", "unit", " ", "file", " ", "changed">> }

\* the texts of at most MaxParseLines lines of a set of lines
TextsOf(lines) == UNION {[1..n -> lines] : n \in 0..MaxParseLines}

\* re.search(r'"([^"]+)"', line), dockpanel.py:496: the first quoted,
\* non-empty run
RECURSIVE Quoted(_)
Quoted(line) ==
    LET i == IndexOf(line, "\"", 1)
        j == IF i = 0 THEN 0 ELSE IndexOf(line, "\"", i + 1)
    IN  IF j = 0 THEN [found |-> FALSE, group |-> <<>>]
        ELSE IF j > i + 1 THEN [found |-> TRUE, group |-> SubSeq(line, i + 1, j - 1)]
        ELSE Quoted(SubSeq(line, j, Len(line)))

\* grep -E pattern file, through run_command: the matching lines, exit code
\* 1 when there is none
Grep(prefixes, file) ==
    LET hits == SelectSeq(file, LAMBDA line : \E p \in prefixes : StartsWith(line, p))
    IN  [stdout |-> StripText(hits), code |-> IF hits = <<>> THEN 1 ELSE 0]

\* the first loop of the GRUB branch, dockpanel.py:494-501
RECURSIVE GrubEntries(_, _, _)
GrubEntries(lines, n, cfg) ==
    IF n > Len(lines) THEN cfg
    ELSE LET line == lines[n]
         IN  IF StartsWith(line, <<"menuentry">>)
             THEN GrubEntries(lines, n + 1,
                      IF Quoted(line).found
                      THEN [cfg EXCEPT !.entries = Append(@, Quoted(line).group)]
                      ELSE cfg)
             ELSE IF StartsWith(line, <<"set", " ", "default", "=">>)
             THEN GrubEntries(lines, n + 1,
                      [cfg EXCEPT !.default_entry = Strip(Split(line, "=")[2])])
             ELSE GrubEntries(lines, n + 1, cfg)

\* the second loop of the GRUB branch, dockpanel.py:506-508
RECURSIVE GrubTimeout(_, _, _)
GrubTimeout(lines, n, cfg) ==
    IF n > Len(lines) THEN [raised |-> FALSE, config |-> cfg]
    ELSE IF StartsWith(lines[n], <<"set", " ", "timeout", "=">>)
    THEN LET v == int(Strip(Split(lines[n], "=")[2]))
         IN  IF v.raises THEN [raised |-> TRUE, config |-> cfg]
             ELSE GrubTimeout(lines, n + 1, [cfg EXCEPT !.timeout = v.n])
    ELSE GrubTimeout(lines, n + 1, cfg)

\* the loop over /boot/loader/loader.conf, dockpanel.py:515-520
RECURSIVE LoaderConf(_, _, _)
LoaderConf(lines, n, cfg) ==
    IF n > Len(lines) THEN [raised |-> FALSE, config |-> cfg]
    ELSE LET line == Strip(lines[n])
         IN  IF StartsWith(line, <<"default", " ">>)
             THEN LoaderConf(lines, n + 1, [cfg EXCEPT !.default_entry = Fields(line)[2]])
             ELSE IF StartsWith(line, <<"timeout", " ">>)
             THEN LET v == int(Fields(line)[2])
                  IN  IF v.raises THEN [raised |-> TRUE, config |-> cfg]
                      ELSE LoaderConf(lines, n + 1, [cfg EXCEPT !.timeout = v.n])
             ELSE LoaderConf(lines, n + 1, cfg)

\* entry_file[:-5] of the files of /boot/loader/entries ending in .conf,
\* dockpanel.py:525-527
LoaderEntries(files) ==
    LET confs == SelectSeq(files, LAMBDA f : f # <<>> /\ f[Len(f)] = ".conf")
    IN  [n \in DOMAIN confs |-> SubSeq(confs[n], 1, Len(confs[n]) - 1)]

Bootloaders == {"GRUB2", "systemd-boot", "rEFInd", "Unknown"}

\* BootManager.get_boot_config on Linux, dockpanel.py:476-536: loader is
\* the boot loader whose file exists, file the lines of that file, entries
\* the names in /boot/loader/entries
get_boot_config(system, loader, file, entries) ==
    IF system # "Linux" \/ loader \in {"Unknown"}
    THEN [raised |-> FALSE, config |-> NoConfig]
    ELSE IF loader = "GRUB2"
    THEN LET first == Grep({<<"menuentry">>, <<"set", " ", "default", "=">>}, file)
             cfg1 == IF first.code = 0
                     THEN GrubEntries(TextLines(first.stdout), 1,
                                      [NoConfig EXCEPT !.bootloader = "GRUB2"])
                     ELSE [NoConfig EXCEPT !.bootloader = "GRUB2"]
             second == Grep({<<"set", " ", "timeout", "=">>}, file)
         IN  IF second.code = 0 THEN GrubTimeout(TextLines(second.stdout), 1, cfg1)
             ELSE [raised |-> FALSE, config |-> cfg1]
    ELSE IF loader = "systemd-boot"
    THEN LET r == LoaderConf(file, 1, [NoConfig EXCEPT !.bootloader = "systemd-boot"])
         IN  IF r.raised THEN r
             ELSE [raised |-> FALSE,
                   config |-> [r.config EXCEPT !.entries = LoaderEntries(entries)]]
    ELSE [raised |-> FALSE, config |-> [NoConfig EXCEPT !.bootloader = "rEFInd"]]

\* lines of grub.cfg and of loader.conf
BootLines ==
    { <<"menuentry", " ", "\"", "Ubuntu", "\"", " ", "{">>,
      <<"set", " ", "default", "=", "0">>,
      <<"set", " ", "timeout", "=", "5">>,
      <<"set", " ", "timeout", "=", "${timeout}">>,
      <<"default", " ", "arch.conf">>,
      <<"timeout", " ", "3">>,
      <<"timeout", " ", "menu-force">> }

EntryFiles == { <<>>, << <<"arch", ".conf">>, <<"arch", ".conf", ".bak">> >> }

\* str.isalnum() of a line's first character: a word's first character is
Marks == {" ", "/", "[", "]", "=", "\"", "#", "-", "+", ",", "{", "}"}

\* PackageManager._parse_upgradable_list, dockpanel.py:1207-1220
RECURSIVE ParseUpgradable(_, _, _)
ParseUpgradable(manager, lines, n) ==
    IF n > Len(lines) THEN <<>>
    ELSE LET line == lines[n]
             rest == ParseUpgradable(manager, lines, n + 1)
         IN  IF Strip(line) = <<>> THEN rest
             ELSE IF manager = "apt" /\ IndexOf(line, "/", 1) # 0 /\ line[1] \notin Marks
             THEN << <<Strip(Split(line, "/")[1]),
                       IF IndexOf(line, "[", 1) # 0
                       THEN Split(Split(line, "[")[2], "]")[1]
                       ELSE <<>>,
                       <<>> >> >> \o rest
             ELSE IF manager = "dnf" /\ ~StartsWith(line, <<"Last", " ", "metadata">>)
             THEN IF Len(Fields(line)) >= 2
                  THEN << <<Fields(line)[1], Fields(line)[2], <<>> >> >> \o rest
                  ELSE rest
             ELSE rest

_parse_upgradable_list(manager, output) == ParseUpgradable(manager, TextLines(output), 1)

\* lines of `apt list --upgradable` and of `dnf check-update`
UpgradableLines ==
    { <<"Listing...">>,
      <<"vim", "/", "stable", " ", "9.1", " ", "amd64", " ", "[", "upgradable", " ",
        "from:", " ", "9.0", "]">>,
      <<"Last", " ", "metadata", " ", "expiration", " ", "check">>,
      <<"vim.x86_64", " ", "9.1", " ", "updates">>,
      <<" ", "/", "[">> }

ParseInit ==
    /\ SYSTEM \in Platforms
    /\ PACKAGE_MANAGER \in {detect_system(SYSTEM, bins, brewPath) :
                                bins \in SUBSET LinuxBinaries, brewPath \in BOOLEAN}
    /\ parseText \in TextsOf(ShowLines) \cup TextsOf(BootLines)
                     \cup TextsOf(UpgradableLines)
    /\ parseOp = NoParse
    /\ service_status = NoStatus
    /\ config = NoConfig
    /\ upgradable = <<>>
    /\ parseError = FALSE
    /\ installed_packages = <<>>
    /\ searchLast = NoSearch
    /\ IdleExceptParse

\* one parser is run on the text
Parsed(name, exists, code, loader) ==
    /\ parseOp = NoParse
    /\ parseOp' = [name |-> name, exists |-> exists, code |-> code, loader |-> loader]
    /\ UNCHANGED <<sysVars, exceptParse, parseText, installed_packages, searchLast>>

\* get_service_status('ssh.service') with parseText what `systemctl show`
\* printed
GetServiceStatus ==
    \E exists \in BOOLEAN, code \in {0, 1} :
        LET r == get_service_status(exists, StripText(parseText), code)
        IN  /\ exists \/ code = 0
            /\ Parsed("get_service_status", exists, code, "Unknown")
            /\ service_status' = r.status
            /\ parseError' = r.raised
            /\ UNCHANGED <<config, upgradable>>

\* get_boot_config() with parseText the boot loader's configuration file
GetBootConfig ==
    \E loader \in Bootloaders, entries \in EntryFiles :
        LET r == get_boot_config(SYSTEM, loader, parseText, entries)
        IN  /\ loader = "systemd-boot" \/ entries = <<>>
            /\ Parsed("get_boot_config", SYSTEM = "Linux", 0, loader)
            /\ config' = r.config
            /\ parseError' = r.raised
            /\ UNCHANGED <<service_status, upgradable>>

\* _parse_upgradable_list(stdout) of get_upgradable_packages,
\* dockpanel.py:1201-1204
ParseUpgradableList ==
    /\ PACKAGE_MANAGER \in PkgBackends
    /\ Parsed("_parse_upgradable_list", TRUE, 0, "Unknown")
    /\ upgradable' = _parse_upgradable_list(PACKAGE_MANAGER, StripText(parseText))
    /\ UNCHANGED <<service_status, config, parseError>>

ParseNext == GetServiceStatus \/ GetBootConfig \/ ParseUpgradableList

SpecParse == ParseInit /\ [][ParseNext]_vars

\* the lines get_service_status looped over, if `systemctl show` ran
ShowOutput == TextLines(StripText(parseText))

ShowParsed ==
    parseOp.name = "get_service_status" /\ parseOp.exists /\ parseOp.code = 0

HasKey(line) == IndexOf(line, "=", 1) # 0
KeyOf(line) == SplitOnce(line, "=")[1]
ValueOf(line) == SplitOnce(line, "=")[2]

\* a line of the form systemctl prints: a number where the property is one
WellFormedShowLine(line) ==
    /\ HasKey(line)
    /\ KeyOf(line) = <<"MainPID">> => IsDigits(ValueOf(line))
    /\ KeyOf(line) \in {<<"MemoryCurrent">>, <<"TasksCurrent">>} =>
           IsDigits(ValueOf(line)) \/ ValueOf(line) = NotSet

\* output as systemctl prints it: every property once and well-formed
SystemctlShowFixture(lines) ==
    /\ \A n \in DOMAIN lines : HasKey(lines[n]) => WellFormedShowLine(lines[n])
    /\ \A i, j \in DOMAIN lines :
           (i # j /\ HasKey(lines[i]) /\ HasKey(lines[j])) => KeyOf(lines[i]) # KeyOf(lines[j])

\* C19: get_service_status on `systemctl show` output: a line
\* MemoryCurrent=<n> gives memory = floor(n / 1024 / 1024), the whole
\* megabytes in n bytes, so 104857600 gives 100; MemoryCurrent=[not set]
\* gives memory = 0 and no error.
C19_MemoryIsWholeMegabytes ==
    (ShowParsed /\ SystemctlShowFixture(ShowOutput)) =>
        /\ ~parseError
        /\ \A n \in DOMAIN ShowOutput :
               (HasKey(ShowOutput[n]) /\ KeyOf(ShowOutput[n]) = <<"MemoryCurrent">>) =>
                   LET value == ValueOf(ShowOutput[n])
                   IN  /\ IsDigits(value) =>
                              /\ service_status.memory \in 0..2047
                              /\ service_status.memory * 1048576 <= Decimal(value)
                              /\ Decimal(value) - service_status.memory * 1048576 < 1048576
                       /\ value = <<"1", "0", "4", "8", "5", "7", "6", "0", "0">> =>
                              service_status.memory = 100
                       /\ value = NotSet => service_status.memory = 0

C19_Witness ==
    /\ ShowParsed
    /\ Len(ShowOutput) = 3
    /\ SystemctlShowFixture(ShowOutput)
    /\ ShowOutput[1] = <<"MainPID", "=", "8", "1", "2">>
    /\ ShowOutput[2] = <<"MemoryCurrent", "=", "1", "0", "4", "8", "5", "7", "6", "0", "0">>
    /\ service_status.memory = 100
    /\ service_status.main_pid = 812

\* the lines get_boot_config looped over
BootParsed(loader) ==
    parseOp.name = "get_boot_config" /\ parseOp.exists /\ parseOp.loader = loader

IsTimeoutLine(loader, line) ==
    IF loader = "GRUB2" THEN StartsWith(line, <<"set", " ", "timeout", "=">>)
    ELSE StartsWith(Strip(line), <<"timeout", " ">>)

TimeoutWord(loader, line) ==
    IF loader = "GRUB2" THEN Strip(Split(line, "=")[2]) ELSE Fields(line)[2]

WellFormedTimeout(loader, line) ==
    IsTimeoutLine(loader, line) /\ IsDigits(TimeoutWord(loader, line))

\* the lines after line n of a text that satisfy P
NoLater(lines, n, P(_)) == \A k \in DOMAIN lines : k > n => ~P(lines[k])

\* C20: the parsers never abort on a malformed line: a line that cannot be
\* parsed is skipped, and every well-formed line before and after it is
\* reflected in the result of get_service_status, of get_boot_config and of
\* _parse_upgradable_list.
C20_MalformedLineIsSkipped ==
    /\ ShowParsed =>
           \A n \in DOMAIN ShowOutput :
               LET line == ShowOutput[n]
                   SameKey(other) == WellFormedShowLine(other) /\ KeyOf(other) = KeyOf(line)
               IN  (WellFormedShowLine(line) /\ NoLater(ShowOutput, n, SameKey)) =>
                       StatusLine(service_status, KeyOf(line), ValueOf(line)).status
                           = service_status
    /\ \A loader \in {"GRUB2", "systemd-boot"} :
           BootParsed(loader) =>
               \A n \in DOMAIN parseText :
                   LET WellFormed(other) == WellFormedTimeout(loader, other)
                   IN  (WellFormed(parseText[n]) /\ NoLater(parseText, n, WellFormed)) =>
                           config.timeout = Decimal(TimeoutWord(loader, parseText[n]))
    /\ (parseOp.name = "_parse_upgradable_list" /\ PACKAGE_MANAGER = "apt") =>
           \A n \in DOMAIN parseText :
               LET line == parseText[n]
               IN  (IndexOf(line, "/", 1) > 1 /\ line[1] \notin Marks) =>
                       \E k \in DOMAIN upgradable : upgradable[k][1] = <<line[1]>>

(***************************************************************************)
(* PackageManager.get_installed_packages and search_packages               *)
(***************************************************************************)
\* lines in a package listing and in a search result
MaxListLines == 2

\* the index at which sep, a run of tokens, first starts in line; 0 if none
RECURSIVE Find(_, _, _)
Find(line, sep, n) ==
    IF n + Len(sep) - 1 > Len(line) THEN 0
    ELSE IF SubSeq(line, n, n + Len(sep) - 1) = sep THEN n
    ELSE Find(line, sep, n + 1)

\* line.split(sep, 1)[-1]
AfterFirst(line, sep) ==
    LET i == Find(line, sep, 1)
    IN  IF i = 0 THEN line ELSE SubSeq(line, i + Len(sep), Len(line))

\* PackageManager._parse_package_list, dockpanel.py:1073-1086
RECURSIVE ParsePackages(_, _, _)
ParsePackages(manager, lines, n) ==
    IF n > Len(lines) THEN <<>>
    ELSE LET line == lines[n]
             rest == ParsePackages(manager, lines, n + 1)
         IN  IF Strip(line) = <<>> THEN rest
             ELSE IF manager = "apt" /\ IndexOf(line, "/", 1) # 0 /\ line[1] \notin Marks
             THEN << <<Strip(Split(line, "/")[1]),
                       Strip(AfterFirst(line, <<" ", "-", " ">>))>> >> \o rest
             ELSE IF manager = "brew" /\ ~StartsWith(line, <<"==>">>)
             THEN IF Len(SplitOnce(line, " ")) = 2
                  THEN << <<Strip(SplitOnce(line, " ")[1]),
                            Strip(SplitOnce(line, " ")[2])>> >> \o rest
                  ELSE rest
             ELSE rest

_parse_package_list(manager, output) == ParsePackages(manager, TextLines(output), 1)

\* PackageManager.search_packages(query), dockpanel.py:1054-1071: stdout and
\* code are what run_command returned for the backend's search command
search_packages(manager, query, stdout, code) ==
    IF manager \in PkgBackends /\ code = 0 THEN _parse_package_list(manager, stdout)
    ELSE <<>>

\* PackageManager._parse_installed_list, dockpanel.py:1107-1120
RECURSIVE ParseInstalled(_, _, _)
ParseInstalled(manager, lines, n) ==
    IF n > Len(lines) THEN <<>>
    ELSE LET line == lines[n]
             rest == ParseInstalled(manager, lines, n + 1)
             parts == Fields(line)
         IN  IF Strip(line) = <<>> THEN rest
             ELSE IF manager = "apt" /\ StartsWith(line, <<"ii">>)
             THEN IF Len(parts) >= 3
                  THEN << <<parts[2], parts[3], Join(SubSeq(parts, 4, Len(parts)))>> >>
                       \o rest
                  ELSE rest
             ELSE IF manager = "brew"
             THEN << <<Strip(line), <<>>, <<>> >> >> \o rest
             ELSE rest

_parse_installed_list(manager, output) == ParseInstalled(manager, TextLines(output), 1)

\* PackageManager.get_installed_packages, dockpanel.py:1088-1105
get_installed_packages(manager, stdout, code) ==
    IF manager \in PkgBackends /\ code = 0 THEN _parse_installed_list(manager, stdout)
    ELSE <<>>

\* lines of `dpkg -l`, `brew list`, `pacman -Q` and `dnf list installed`
ListingLines ==
    { <<"Desired", "=", "Unknown", "/", "Install", "/", "Remove">>,
      <<"ii", " ", " ", "vim", " ", "9.0", " ", "amd64", " ", "Vi", " ", "IMproved">>,
      <<"rc", " ", " ", "nano", " ", "7.2", " ", "amd64", " ", "editor">>,
      <<"vim">>,
      <<"git">>,
      <<"vim", " ", "9.0-1">>,
      <<"vim.x86_64", " ", "9.0", " ", "@fedora">> }

\* lines of `apt search`, `brew search`, `pacman -Ss`, `dnf search` and
\* `zypper search`
SearchLines ==
    { <<"Sorting...">>,
      <<"vim", "/", "stable", " ", "9.0", " ", "amd64">>,
      <<" ", " ", "Vi", " ", "IMproved", " ", "-", " ", "enhanced", " ", "vi">>,
      <<"vim">>,
      <<"==>", " ", "Formulae">>,
      <<"extra", "/", "vim", " ", "9.0-1">>,
      <<"vim.x86_64", " ", ":", " ", "Vi", " ", "IMproved">>,
      <<"i", " ", "|", " ", "vim", " ", "|", " ", "Vi", " ", "IMproved">> }

ListTexts(lines) == UNION {[1..n -> lines] : n \in 0..MaxListLines}

\* the backend's search output lists the package: a line of the form the
\* backend prints for a package carries its name
ListsPackage(manager, stdout, name) ==
    \E n \in DOMAIN stdout :
        LET line == stdout[n]
        IN  CASE manager = "apt" -> StartsWith(line, name \o <<"/">>)
              [] manager = "brew" -> Strip(line) = name
              [] manager = "pacman" -> Find(line, <<"/">> \o name \o <<" ">>, 1) # 0
              [] manager = "dnf" -> StartsWith(line, name)
              [] manager = "zypper" -> Find(line, <<"|", " ">> \o name \o <<" ", "|">>, 1) # 0
              [] OTHER -> FALSE

SearchInit ==
    /\ SYSTEM \in Platforms
    /\ PACKAGE_MANAGER \in {detect_system(SYSTEM, bins, brewPath) :
                                bins \in SUBSET LinuxBinaries, brewPath \in BOOLEAN}
    /\ parseText \in ListTexts(ListingLines)
    /\ parseOp = NoParse
    /\ service_status = NoStatus
    /\ config = NoConfig
    /\ upgradable = <<>>
    /\ parseError = FALSE
    /\ installed_packages = <<>>
    /\ searchLast = NoSearch
    /\ IdleExceptParse

\* get_installed_packages() with parseText what the listing command printed
GetInstalledPackages ==
    \E code \in {0, 1} :
        /\ parseOp = NoParse
        /\ parseOp' = [name |-> "get_installed_packages", exists |-> TRUE,
                       code |-> code, loader |-> "Unknown"]
        /\ installed_packages' =
               get_installed_packages(PACKAGE_MANAGER, StripText(parseText), code)
        /\ UNCHANGED <<sysVars, exceptParse, parseText, service_status, config,
                       upgradable, parseError, searchLast>>

\* search_packages(name) for a name get_installed_packages returned, the
\* search command printing out and exiting with code
SearchPackages ==
    \E k \in DOMAIN installed_packages, out \in ListTexts(SearchLines), code \in {0, 1} :
        LET query == installed_packages[k][1]
            stdout == StripText(out)
        IN  /\ parseOp.name = "get_installed_packages"
            /\ searchLast = NoSearch
            /\ searchLast' = [query |-> query, stdout |-> stdout, code |-> code,
                              result |-> search_packages(PACKAGE_MANAGER, query,
                                                         stdout, code)]
            /\ UNCHANGED <<sysVars, exceptParse, parseText, parseOp, service_status,
                           config, upgradable, parseError, installed_packages>>

SearchNext == GetInstalledPackages \/ SearchPackages

SpecSearch == SearchInit /\ [][SearchNext]_vars

\* C18: for every supported backend, each package name get_installed_packages
\* returned is in the result of search_packages for that name whenever the
\* backend's search output lists the package.
C18_InstalledPackageIsFound ==
    (/\ searchLast # NoSearch
     /\ searchLast.code = 0
     /\ PACKAGE_MANAGER \in PkgBackends
     /\ ListsPackage(PACKAGE_MANAGER, searchLast.stdout, searchLast.query)) =>
        \E k \in DOMAIN searchLast.result : searchLast.result[k][1] = searchLast.query

(***************************************************************************)
(* Start-up: the capabilities both programs detect once                    *)
(***************************************************************************)
\* changes of the installed binaries in one run
MaxProbeOps == 2

\* handler runs after the start in one run
MaxProbeRuns == 2

\* /etc/os-release: absent, with its ID= and PRETTY_NAME= lines, or without
\* them ("" is no such line)
OsReleases ==
    { NoOsRelease,
      [exists |-> TRUE, id |-> "ubuntu", pretty |-> "Ubuntu 24.04 LTS"],
      [exists |-> TRUE, id |-> "", pretty |-> ""] }

\* DISTRO after detect_system(), dockpanel.py:49-56 and 69-70
detect_distro(system, release) ==
    IF system = "Linux"
    THEN IF release.exists /\ release.id # "" THEN release.id ELSE "Unknown"
    ELSE IF system = "Darwin" THEN "macOS"
    ELSE "Unknown"

\* SystemAdminApp._detect_distro, foxden.py:51-63
fox_detect_distro(system, release) ==
    IF system = "Darwin" THEN "macOS"
    ELSE IF system = "Linux" /\ release.exists /\ release.pretty # ""
    THEN release.pretty
    ELSE system

\* a start that detects again whenever the data is refreshed
fox_redetect(app, system, bins) ==
    [app EXCEPT !.package_manager = fox_detect_package_manager(system, bins)]

\* SystemAdminApp.refresh_all_data, foxden.py:75-83: the refresh_* methods
\* of the window read app.system and app.package_manager and assign neither
fox_refresh_all_data(app, system, bins) == app

ProbeInit ==
    /\ SYSTEM \in Platforms
    /\ PACKAGE_MANAGER = "None"
    /\ foxPM = "unknown"
    /\ foxThreads = <<>>
    /\ foxIdleQ = <<>>
    /\ foxStatus = "Ready"
    /\ foxPkgDb = {}
    /\ foxInstalled = {}
    /\ foxClicks = 0
    /\ foxSwitch = FALSE
    /\ foxFwRules = <<>>
    /\ foxPkgAsked = "none"
    /\ probeBins \in SUBSET LinuxBinaries
    /\ probeBrew \in BOOLEAN
    /\ osRelease \in OsReleases
    /\ DISTRO = "Unknown"
    /\ foxDistro = "Unknown"
    /\ probed = {}
    /\ probeOps = 0
    /\ probeRuns = 0
    /\ KernelIdle /\ PkgIdle /\ RepoIdle /\ UfwIdle /\ FwIdle
    /\ LogIdle /\ PanelIdle /\ GwIdle /\ UserIdle /\ ParseIdle
    /\ fwInfo = NoFwInfo /\ StepIdle

\* what the start-up actions and handlers leave alone
probeFrame ==
    <<SYSTEM, foxThreads, foxIdleQ, foxStatus, foxInstalled, foxPkgDb, foxClicks,
      foxSwitch, foxFwRules, foxPkgAsked, kernelVars, pkgVars, repoVars, ufwVars,
      fwVars, logVars, panelVars, gwVars, userVars, parseVars, fwInfo, stepVars>>

\* dockpanel is started: the module-level detect_system(), dockpanel.py:75
DockStart ==
    /\ "dockpanel" \notin probed
    /\ probed' = probed \cup {"dockpanel"}
    /\ DISTRO' = detect_distro(SYSTEM, osRelease)
    /\ PACKAGE_MANAGER' = detect_system(SYSTEM, probeBins, probeBrew)
    /\ UNCHANGED <<foxPM, foxDistro, probeBins, probeBrew, osRelease, probeOps,
                   probeRuns, probeFrame>>

\* foxden is started: SystemAdminApp.__init__, foxden.py:27-34
FoxStart ==
    /\ "foxden" \notin probed
    /\ probed' = probed \cup {"foxden"}
    /\ foxDistro' = fox_detect_distro(SYSTEM, osRelease)
    /\ foxPM' = fox_detect_package_manager(SYSTEM, probeBins)
    /\ UNCHANGED <<PACKAGE_MANAGER, DISTRO, probeBins, probeBrew, osRelease, probeOps,
                   probeRuns, probeFrame>>

\* a package manager is installed or removed while the programs run
BinariesChange ==
    \E b \in LinuxBinaries :
        /\ probed # {}
        /\ probeOps < MaxProbeOps
        /\ probeOps' = probeOps + 1
        /\ probeBins' = IF b \in probeBins THEN probeBins \ {b} ELSE probeBins \cup {b}
        /\ UNCHANGED <<PACKAGE_MANAGER, DISTRO, foxPM, foxDistro, probeBrew, osRelease,
                       probed, probeRuns, probeFrame>>

\* on_refresh_clicked, dockpanel.py:3053-3078: the load_* methods read the
\* globals
DockRefresh ==
    /\ "dockpanel" \in probed
    /\ probeRuns < MaxProbeRuns
    /\ probeRuns' = probeRuns + 1
    /\ UNCHANGED <<PACKAGE_MANAGER, DISTRO, foxPM, foxDistro, probeBins, probeBrew,
                   osRelease, probed, probeOps, probeFrame>>

\* refresh_all_data of foxden
FoxRefreshAllData ==
    LET app == fox_refresh_all_data([distro |-> foxDistro, package_manager |-> foxPM],
                                    SYSTEM, probeBins)
    IN  /\ "foxden" \in probed
        /\ probeRuns < MaxProbeRuns
        /\ probeRuns' = probeRuns + 1
        /\ foxDistro' = app.distro
        /\ foxPM' = app.package_manager
        /\ UNCHANGED <<PACKAGE_MANAGER, DISTRO, probeBins, probeBrew, osRelease,
                       probed, probeOps, probeFrame>>

ProbeNext == DockStart \/ FoxStart \/ BinariesChange \/ DockRefresh \/ FoxRefreshAllData

SpecProbe == ProbeInit /\ [][ProbeNext]_vars

\* the priority order of the claim
ProbeOrder == <<"apt", "dnf", "zypper", "pacman">>

\* the first backend of the order that is present, none when none is
FirstPresent(bins, none) ==
    IF \E i \in DOMAIN ProbeOrder : ProbeOrder[i] \in bins
    THEN ProbeOrder[CHOOSE i \in DOMAIN ProbeOrder :
                        /\ ProbeOrder[i] \in bins
                        /\ \A j \in 1..(i - 1) : ProbeOrder[j] \notin bins]
    ELSE none

\* C21: on Linux the package backend chosen at the start is the first of
\* apt, dnf, zypper, pacman that is present, and none when none is present;
\* on Darwin brew is chosen only when a known brew install path exists.
\* (Checked while the binaries are those the start found.)
C21_FirstPresentBackend ==
    /\ ("dockpanel" \in probed /\ probeOps = 0) =>
           /\ SYSTEM = "Linux" => PACKAGE_MANAGER = FirstPresent(probeBins, "None")
           /\ SYSTEM = "Darwin" => (PACKAGE_MANAGER = "brew" => probeBrew)
    /\ ("foxden" \in probed /\ probeOps = 0) =>
           /\ SYSTEM = "Linux" => foxPM = FirstPresent(probeBins, "unknown")
           /\ SYSTEM = "Darwin" => (foxPM = "brew" => probeBrew)

\* C23: the detected capabilities (OS family, distro id, package backend)
\* are set once at the start: no step of a started program changes them.
C23_CapabilitiesNeverChange ==
    [][/\ "dockpanel" \in probed =>
              (SYSTEM' = SYSTEM /\ DISTRO' = DISTRO /\ PACKAGE_MANAGER' = PACKAGE_MANAGER)
       /\ "foxden" \in probed =>
              (SYSTEM' = SYSTEM /\ foxDistro' = foxDistro /\ foxPM' = foxPM)]_vars

C23_Witness ==
    /\ probed = {"dockpanel", "foxden"}
    /\ probeRuns = MaxProbeRuns
    /\ probeOps > 0
    /\ fox_detect_package_manager(SYSTEM, probeBins) # foxPM
    /\ detect_system(SYSTEM, probeBins, probeBrew) # PACKAGE_MANAGER

(***************************************************************************)
(* Firewall detection on systems that have ufw, firewalld, or both         *)
(***************************************************************************)
\* the firewall programs installed (`which firewall-cmd` and
\* shutil.which("firewalld") both find the firewalld package)
FirewallInstalls == SUBSET {"ufw", "firewalld"}

\* the part of get_firewall_info that asks firewalld, dockpanel.py:848-889:
\* a second `if` after the ufw part, working on the same info
firewalld_info(info, system, bins, fd) ==
    IF system = "Linux" /\ "firewalld" \in bins
    THEN [info EXCEPT
            !.backend = "firewalld",
            \* `firewall-cmd --state` exits 0 only when firewalld runs
            !.active = IF fd.running THEN TRUE ELSE @,
            !.default_zone = IF fd.running THEN "public" ELSE @,
            !.zones = IF fd.running
                      THEN <<[name |-> "public", active |-> TRUE,
                              services |-> {x.value : x \in
                                              {y \in fd.runtime : y.type = "service"}},
                              ports |-> {x.value : x \in
                                           {y \in fd.runtime : y.type = "port"}}]>>
                      ELSE @]
    ELSE info

\* the info dictionary get_firewall_info returns, dockpanel.py:814-891
firewall_info(system, bins, u, fd, rc) ==
    LET i == get_firewall_info(system, bins, u, rc)
    IN  firewalld_info([backend |-> i.backend, active |-> i.active,
                        default_zone |-> "", zones |-> <<>>, rules |-> i.rules],
                       system, bins, fd)

FwProbeInit ==
    /\ SYSTEM \in Platforms
    /\ PACKAGE_MANAGER = detect_system(SYSTEM, {}, FALSE)
    /\ foxPM = fox_detect_package_manager(SYSTEM, {})
    /\ foxThreads = <<>>
    /\ foxIdleQ = <<>>
    /\ foxStatus = "Ready"
    /\ foxPkgDb = {}
    /\ foxInstalled = {}
    /\ foxClicks = 0
    /\ foxSwitch = FALSE
    /\ foxFwRules = <<>>
    /\ foxPkgAsked = "none"
    /\ fwBins \in FirewallInstalls
    /\ \E r \in BOOLEAN, p \in SUBSET FirewalldItems :
           firewalld = [running |-> r, permanent |-> p,
                        runtime |-> IF r THEN p ELSE {}]
    /\ ufw \in [active : BOOLEAN,
                rules : {<<>>, <<[to |-> "22/tcp", action |-> "ALLOW",
                                  from |-> "Anywhere"]>>}]
    /\ rules_liststore = <<>>
    /\ fwLast = NoFwCall
    /\ fwOps = 0
    /\ fwInfo = NoFwInfo
    /\ IdleExceptFw

\* the firewall page of dockpanel is loaded: get_firewall_info and
\* load_firewall_rules, dockpanel.py:2817-2829
GetFirewallInfo ==
    \E rc \in {0, 1} :
        /\ foxClicks + fwOps < MaxFwOps
        /\ fwOps' = fwOps + 1
        /\ fwInfo' = firewall_info(SYSTEM, fwBins, ufw, firewalld, rc)
        /\ rules_liststore' = load_firewall_rules(fwInfo')
        /\ fwLast' = [op |-> "info", rule |-> <<>>, row |-> <<>>, spawn |-> <<>>,
                      ok |-> (rc = 0), seen |-> ufw]
        /\ UNCHANGED <<ufwVars, sysVars, foxVars, kernelVars, pkgVars, repoVars,
                       logVars, panelVars, gwVars, userVars, parseVars, probeVars,
                       stepVars>>

FwProbeNext ==
    \/ GetFirewallInfo \/ FoxRefreshFirewall \/ FoxPopen \/ FoxExit \/ FoxCallback

SpecFwProbe == FwProbeInit /\ [][FwProbeNext]_vars

\* what get_firewall_info reports of a system whose only firewall is ufw
UfwOnlyInfo(u, ok) ==
    firewall_info("Linux", {"ufw"}, u, NoFirewalld, IF ok THEN 0 ELSE 1)

\* C22: firewall detection is first-present-wins.  With ufw and firewalld
\* both present the reported backend is ufw, and backend, active flag and
\* rules all come from ufw alone; foxden's status command is ufw's.
C22_FirstFirewallWins ==
    (SYSTEM = "Linux" /\ {"ufw", "firewalld"} \subseteq fwBins) =>
        /\ fwLast.op = "info" =>
               /\ fwInfo.backend = "ufw"
               /\ fwInfo = UfwOnlyInfo(fwLast.seen, fwLast.ok)
        /\ \A i \in DOMAIN foxThreads :
               foxThreads[i].kind = "fw_status" =>
                   foxThreads[i].cmd = <<"ufw", "status", "verbose">>

(***************************************************************************)
(* Two-step operations: a change, then the command that applies it         *)
(***************************************************************************)
\* two-step calls of BootManager and FirewallManager in one run
MaxStepOps == 2

\* /etc/default/grub, with GRUB_DEFAULT and GRUB_TIMEOUT, and the values
\* the grub.cfg that update-grub generated last was made from
GrubFiles ==
    { NoGrub,
      [exists |-> TRUE, default |-> "0", timeout |-> "5", made |-> <<"0", "5">>] }

\* sed -i 's/^GRUB_<key>=.*/GRUB_<key>=<value>/' /etc/default/grub
SedGrub(key, value) == <<"sed", "-i", key, value, "/etc/default/grub">>

\* what the commands that ran with exit code 0 did to grub's files
RECURSIVE GrubRun(_, _)
GrubRun(grub, steps) ==
    IF steps = <<>> THEN grub
    ELSE LET s == Head(steps)
             g == IF s.returncode # 0 THEN grub
                  ELSE IF s.cmd = <<"update-grub">>
                  THEN [grub EXCEPT !.made = <<grub.default, grub.timeout>>]
                  ELSE IF s.cmd[3] = "GRUB_DEFAULT"
                  THEN [grub EXCEPT !.default = s.cmd[4]]
                  ELSE [grub EXCEPT !.timeout = s.cmd[4]]
         IN  GrubRun(g, Tail(steps))

\* BootManager.update_grub, dockpanel.py:539-547
update_grub(code) == [ok |-> code = 0, msg |-> IF code # 0 THEN "stderr" ELSE "stdout"]

\* set_default_boot_entry and set_boot_timeout, dockpanel.py:549-582: key is
\* the variable of /etc/default/grub the sed command sets; code and code2
\* are the exit codes of sed and of update-grub
SetGrub(key, value, grub, code, code2) ==
    IF grub.exists
    THEN [steps |-> Steps(SedGrub(key, value), code, <<"update-grub">>, code2),
          ok |-> IF code = 0 THEN update_grub(code2).ok ELSE FALSE,
          msg |-> IF code = 0 THEN update_grub(code2).msg ELSE "stderr"]
    ELSE [steps |-> <<>>, ok |-> FALSE, msg |-> "GRUB configuration not found"]

\* BootManager.set_default_boot_entry, dockpanel.py:549-564
set_default_boot_entry(entry, grub, code, code2) ==
    SetGrub("GRUB_DEFAULT", entry, grub, code, code2)

\* BootManager.set_boot_timeout, dockpanel.py:566-581
set_boot_timeout(timeout, grub, code, code2) ==
    SetGrub("GRUB_TIMEOUT", timeout, grub, code, code2)

\* the rules the firewalld dialogs give; a rule whose type is neither
\* service nor port leaves cmd unbound
FirewalldRules == FirewalldItems \cup { [type |-> "other", value |-> "x"] }

\* add_firewall_rule and remove_firewall_rule for backend firewalld,
\* dockpanel.py:914-930 and 959-975: verb is add or remove; rc and rc2 are
\* what the environment lets the two commands return
firewalld_rule(verb, rule, fd, bins, rc, rc2) ==
    IF rule.type \notin {"service", "port"}
    THEN \* UnboundLocalError, caught at 933 and 978
         [firewalld |-> fd, steps |-> <<>>, ok |-> FALSE, msg |-> "exception"]
    ELSE LET cmd == <<"firewall-cmd", "--zone=public", FirewalldOption(verb, rule),
                      "--permanent">>
             reload == <<"firewall-cmd", "--reload">>
             run == FirewalldRun(fd, bins, cmd, rc)
             run2 == FirewalldRun(run.firewalld, bins, reload, rc2)
         IN  [firewalld |-> IF run.returncode = 0 THEN run2.firewalld ELSE run.firewalld,
              steps |-> Steps(cmd, run.returncode, reload, run2.returncode),
              ok |-> IF run.returncode = 0 THEN run2.returncode = 0 ELSE FALSE,
              msg |-> IF run.returncode # 0 \/ run2.returncode # 0 THEN "stderr"
                      ELSE IF verb = "add" THEN "Rule added successfully"
                      ELSE "Rule removed successfully"]

TwoStepInit ==
    /\ SYSTEM = "Linux"
    /\ PACKAGE_MANAGER = "apt"
    /\ aptFiles \in {c \in AptConfigs :
                       Len(c) = 1 /\ c[1].lines[1] \in {<<"deb ", "x">>, <<"#", "deb ", "x">>}}
    /\ repoDb = <<>>
    /\ pacConf = <<>>
    /\ repoLast = NoRepoCall
    /\ repoPrev = NoRepoCall
    /\ repoOps = 0
    /\ ufw = [active |-> FALSE, rules |-> <<>>]
    /\ fwBins = {"firewalld"}
    /\ \E r \in BOOLEAN :
           firewalld = [running |-> r, permanent |-> {}, runtime |-> {}]
    /\ grubDefault \in GrubFiles
    /\ stepLast = NoStep
    /\ stepOps = 0
    /\ KernelIdle /\ FoxIdle /\ PkgIdle /\ FwIdle
    /\ LogIdle /\ PanelIdle /\ GwIdle /\ UserIdle /\ ParseIdle
    /\ fwInfo = NoFwInfo /\ ProbeIdle

\* what a two-step call of BootManager or FirewallManager leaves alone
stepFrame ==
    <<sysVars, kernelVars, foxVars, pkgVars, repoVars, ufw, fwBins, fwVars, logVars,
      panelVars, gwVars, userVars, parseVars, fwInfo, probeVars>>

StepCalled(op, arg, r) ==
    /\ stepOps + repoOps < MaxStepOps
    /\ stepOps' = stepOps + 1
    /\ stepLast' = [op |-> op, arg |-> arg, steps |-> r.steps, ok |-> r.ok,
                    msg |-> r.msg]

\* BootManager.set_default_boot_entry is called
SetDefaultBootEntry ==
    \E entry \in {"1"}, code \in {0, 1}, code2 \in {0, 1} :
        LET r == set_default_boot_entry(entry, grubDefault, code, code2)
        IN  /\ StepCalled("set_default_boot_entry", entry, r)
            /\ grubDefault' = GrubRun(grubDefault, r.steps)
            /\ UNCHANGED <<firewalld, stepFrame>>

\* BootManager.set_boot_timeout is called
SetBootTimeout ==
    \E timeout \in {"9"}, code \in {0, 1}, code2 \in {0, 1} :
        LET r == set_boot_timeout(timeout, grubDefault, code, code2)
        IN  /\ StepCalled("set_boot_timeout", timeout, r)
            /\ grubDefault' = GrubRun(grubDefault, r.steps)
            /\ UNCHANGED <<firewalld, stepFrame>>

\* add_firewall_rule with a firewalld rule
AddFirewalldRule ==
    \E rule \in FirewalldRules, rc \in {0, 1}, rc2 \in {0, 1} :
        LET r == firewalld_rule("add", rule, firewalld, fwBins, rc, rc2)
        IN  /\ StepCalled("add_firewall_rule", rule.value, r)
            /\ firewalld' = r.firewalld
            /\ UNCHANGED <<grubDefault, stepFrame>>

\* remove_firewall_rule with a firewalld rule
RemoveFirewalldRule ==
    \E rule \in FirewalldRules, rc \in {0, 1}, rc2 \in {0, 1} :
        LET r == firewalld_rule("remove", rule, firewalld, fwBins, rc, rc2)
        IN  /\ StepCalled("remove_firewall_rule", rule.value, r)
            /\ firewalld' = r.firewalld
            /\ UNCHANGED <<grubDefault, stepFrame>>

TwoStepNext ==
    \/ SetDefaultBootEntry \/ SetBootTimeout \/ AddFirewalldRule \/ RemoveFirewalldRule
    \/ ToggleRepository \/ RemoveRepository \/ AddRepository

SpecTwoStep == TwoStepInit /\ [][TwoStepNext]_vars

\* the commands that apply a change
ApplyCmds == { <<"update-grub">>, <<"firewall-cmd", "--reload">>, <<"apt", "update">> }

\* the second command ran only after the first returned 0, and ok is the
\* success of both
InOrder(steps, ok) ==
    /\ Len(steps) <= 2
    /\ Len(steps) = 2 => (steps[1].returncode = 0 /\ steps[2].cmd \in ApplyCmds)
    /\ Len(steps) >= 1 => steps[1].cmd \notin ApplyCmds
    /\ ok <=> (Len(steps) = 2 /\ steps[1].returncode = 0 /\ steps[2].returncode = 0)

\* C24: in every two-step mutating operation (set_default_boot_entry and
\* set_boot_timeout: sed, then update-grub; firewalld add and remove rule:
\* the change, then the reload; apt repository add, remove and toggle: the
\* file write, then apt update) the second step is executed only after the
\* first succeeded, and success is reported iff both steps succeeded.
C24_SecondStepAfterFirst ==
    /\ InOrder(stepLast.steps, stepLast.ok)
    /\ InOrder(repoLast.steps, repoLast.ok)
    /\ InOrder(repoPrev.steps, repoPrev.ok)

C24_Witness ==
    /\ stepLast.op = "add_firewall_rule"
    /\ Len(stepLast.steps) = 1
    /\ repoLast.op = "toggle"
    /\ repoLast.ok
    /\ Len(repoLast.steps) = 2

\* a first step that failed, a second step that failed, and both succeeding
\* all occur for the grub operations
C24_GrubCases ==
    /\ stepLast.op = "set_boot_timeout"
    /\ Len(stepLast.steps) = 2
    /\ ~stepLast.ok
    /\ grubDefault.timeout = "9"
    /\ grubDefault.made # <<grubDefault.default, grubDefault.timeout>>

(***************************************************************************)
(* Claims on the order of kernel removal                                   *)
(***************************************************************************)
\* C25: remove_old_kernels processes the removal set in order and stops at
\* the first failing removal command: it returns failure with a message
\* naming that kernel, attempts no later kernel and does not run the
\* bootloader update.  When every removal succeeds it reports success with
\* a count equal to the size of the removal set, and with an empty removal
\* set it reports success without executing any command.
C25_StopsAtFirstFailure ==
    kLast.called =>
        /\ Len(kLast.cmds) <= Len(kLast.to_remove)
        /\ \A i \in DOMAIN kLast.cmds :
               /\ kLast.cmds[i].version = kLast.to_remove[i].version
               /\ i < Len(kLast.cmds) => kLast.codes[i] = 0
        /\ ~kLast.ok =>
               /\ kLast.cmds # <<>>
               /\ kLast.codes[Len(kLast.codes)] # 0
               /\ kLast.named = kLast.cmds[Len(kLast.cmds)].version
               /\ kLast.msg = "Failed to remove kernel"
               /\ ~kLast.grub
        /\ kLast.ok =>
               /\ Len(kLast.cmds) = Len(kLast.to_remove)
               /\ \A i \in DOMAIN kLast.codes : kLast.codes[i] = 0
               /\ kLast.to_remove # <<>> => kLast.count = Len(kLast.to_remove)
        /\ kLast.to_remove = <<>> => (kLast.ok /\ kLast.cmds = <<>> /\ ~kLast.grub)

C25_Witness ==
    /\ kLast.called
    /\ ~kLast.ok
    /\ PACKAGE_MANAGER = "apt"
    /\ Len(kLast.to_remove) = 3
    /\ Len(kLast.cmds) = 2

\* the numeric components of a version string: "5.10" is <<5, 10>>
RECURSIVE VersionParts(_, _, _)
VersionParts(v, i, n) ==
    IF i > Len(v) THEN <<n>>
    ELSE IF v[i] = 46 THEN <<n>> \o VersionParts(v, i + 1, 0)
    ELSE VersionParts(v, i + 1, n * 10 + (v[i] - 48))

\* version a is older than version b, compared numerically component by
\* component
NumericLess(a, b) ==
    LET x == VersionParts(a, 1, 0)
        y == VersionParts(b, 1, 0)
    IN  \/ /\ Len(x) < Len(y)
           /\ \A j \in 1..Len(x) : x[j] = y[j]
        \/ \E i \in 1..(IF Len(x) < Len(y) THEN Len(x) ELSE Len(y)) :
              /\ \A j \in 1..(i - 1) : x[j] = y[j]
              /\ x[i] < y[i]

\* the non-current kernels a call left out of its removal set
KeptKernels(call) ==
    {call.kernels[i].version : i \in {j \in DOMAIN call.kernels :
                                         ~call.kernels[j].current}}
    \ {call.to_remove[i].version : i \in DOMAIN call.to_remove}

\* C26: remove_old_kernels keeps the keep_count most recent non-current
\* kernels: every kernel of the removal set is older than every kept
\* non-current kernel, versions compared numerically component by component
\* (5.10 is newer than 5.9).
C26_KeepsMostRecent ==
    kLast.called =>
        /\ Cardinality(KeptKernels(kLast)) =
               (IF NonCurrentCount(kLast.kernels) < kLast.keep
                THEN NonCurrentCount(kLast.kernels) ELSE kLast.keep)
        /\ \A i \in DOMAIN kLast.to_remove : \A k \in KeptKernels(kLast) :
               NumericLess(kLast.to_remove[i].version, k)

(***************************************************************************)
(* Claims on what a repository verb touches                                *)
(***************************************************************************)
\* a line of a sources file that is the repository called name, enabled or
\* commented out
IsRepoLine(line, name) == line # <<>> /\ StripHash(line) = name

\* the lines of a sources file that are not the repository called name:
\* other repositories and comments
OtherLines(lines, name) ==
    SelectSeq(lines, LAMBDA line : line # <<>> /\ ~IsRepoLine(line, name))

\* C27: on apt, remove_repository(name) changes only the named repository:
\* the lines of other repositories (also of one whose line merely contains
\* name as a substring) and comment lines are unchanged, and no file that
\* does not contain the named repository is rewritten.
C27_RemoveTouchesOnlyNamed ==
    (PACKAGE_MANAGER = "apt" /\ repoLast.op = "remove" /\ repoLast.ok) =>
        /\ OtherLines(repoLast.after, repoLast.name)
               = OtherLines(repoLast.old, repoLast.name)
        /\ \E n \in DOMAIN repoLast.old : IsRepoLine(repoLast.old[n], repoLast.name)

\* the state a toggle asks for, as a listing shows it
Wanted(enable) == IF enable THEN "enabled" ELSE "disabled"

\* C28: toggle_repository is idempotent: toggle(name, e) on an existing
\* repository that already is in state e reports success (not 'Repository
\* not found'; a failing command apart) and leaves the repository's state
\* and its file unchanged.
C28_ToggleIsIdempotent ==
    (repoLast.op = "toggle" /\ repoLast.before = Wanted(repoLast.enable)) =>
        /\ repoLast.msg # "Repository not found"
        /\ repoLast.ok \/ repoLast.msg = "stderr"
        /\ repoLast.wrote => repoLast.after = repoLast.old
        /\ Observed(get_repositories(PACKAGE_MANAGER, aptFiles, repoDb, pacConf),
                    repoLast.name) = repoLast.before

(***************************************************************************)
(* Claims on foxden's firewall switch                                      *)
(***************************************************************************)
\* the enable and disable commands among the threads
ToggleThreads(threads) ==
    {i \in DOMAIN threads : threads[i].kind = "fw_toggle"}

\* C29: in foxden a firewall refresh is read-only: running
\* refresh_firewall and delivering its callback never causes a mutating
\* firewall command (ufw enable/disable, systemctl start/stop firewalld,
\* pfctl -e/-d).
C29_RefreshIsReadOnly ==
    [][/\ (/\ Len(foxThreads') > Len(foxThreads)
           /\ foxThreads'[Len(foxThreads')].kind = "fw_status") =>
              Cardinality(ToggleThreads(foxThreads'))
                  = Cardinality(ToggleThreads(foxThreads))
       /\ (/\ foxIdleQ # <<>>
           /\ Head(foxIdleQ).kind = "fw_status"
           /\ foxIdleQ' = Tail(foxIdleQ)) =>
              Cardinality(ToggleThreads(foxThreads'))
                  <= Cardinality(ToggleThreads(foxThreads))]_vars

\* the threads run and the main loop delivers their callbacks: a started
\* process exits (these commands do not wait for input)
FoxSwitchNext ==
    FoxFirewallSwitched \/ FoxRefreshFirewall \/ FoxPopen \/ FoxExit \/ FoxCallback

SpecFirewallFair ==
    /\ FwInit
    /\ [][FoxSwitchNext]_vars
    /\ WF_vars(FoxPopen)
    /\ WF_vars(FoxExit)
    /\ WF_vars(FoxCallback)

\* every enable or disable command that has returned has failed
TogglesFail ==
    \A i \in DOMAIN foxIdleQ :
        foxIdleQ[i].kind = "fw_toggle" => foxIdleQ[i].returncode # 0

\* no command is in flight and no callback is pending
FoxQuiet == foxThreads = <<>> /\ foxIdleQ = <<>>

\* C30: in foxden one user toggle of the firewall switch triggers a
\* bounded number of commands and then quiesces: when the enable or disable
\* command fails, and keeps failing, the switch is restored and eventually
\* no command is in flight and none is issued without a new user action.
C30_ToggleQuiesces == ([]TogglesFail) => <>[]FoxQuiet

=============================================================================
